---- MODULE Spec2Model ----
(***************************************************************************)
(* Model of the needle dependency-injection container:                     *)
(*   internal/graph      (graph.go, cycle.go, topological.go)              *)
(*   internal/container  (container.go, registry.go, resolve.go,           *)
(*                        lifecycle.go, replace.go)                        *)
(* Maps (Go map[string]T) are functions whose DOMAIN is the key set.       *)
(* Iteration over a Go map has no fixed order: every operator that ranges  *)
(* over a map takes the order as an argument and the actions choose it.    *)
(***************************************************************************)
EXTENDS Integers, Sequences, FiniteSets, TLC

\* ------------------------------------------------------------------ bounds

Keys == {"a", "b", "c"}

Providers == {"p1"}

Values == {"v1"}

Callers == {"u1", "u2"}

MaxDeps == 2

MaxHooks == 2

MaxProvCalls == 2

\* ----------------------------------------------------------------- helpers

Range(s) == {s[i] : i \in DOMAIN s}

SeqsUpTo(S, n) == UNION {[1..m -> S] : m \in 0..n}

Perms(S) == {f \in [1..Cardinality(S) -> S] : \A i, j \in DOMAIN f : i # j => f[i] # f[j]}

Reverse(s) == [i \in 1..Len(s) |-> s[Len(s) + 1 - i]]

MapPut(m, k, v) == [x \in (DOMAIN m) \cup {k} |-> IF x = k THEN v ELSE m[x]]

MapDel(m, k) == [x \in (DOMAIN m) \ {k} |-> m[x]]

EmptyMap == [x \in {} |-> 0]

\* Dependency lists handed to Register/Replace: duplicate-free, at most MaxDeps long.
DepSeqs == {d \in SeqsUpTo(Keys, MaxDeps) : \A i, j \in DOMAIN d : i # j => d[i] # d[j]}

\* ------------------------------------------------------------------- graph

NewGraph == [nodes |-> {}, edges |-> EmptyMap, cycleValid |-> FALSE, hasCycle |-> FALSE]

\* AddNode that leaves the cached answer of HasCycle valid.
AddNodeKeepsCache(g, id, dependencies) ==
    [g EXCEPT !.nodes = g.nodes \cup {id},
              !.edges = MapPut(g.edges, id, dependencies)]

AddNode(g, id, dependencies) ==
    [g EXCEPT !.nodes = g.nodes \cup {id},
              !.edges = MapPut(g.edges, id, dependencies),
              !.cycleValid = FALSE]

RemoveNode(g, id) ==
    [g EXCEPT !.nodes = g.nodes \ {id},
              !.edges = MapDel(g.edges, id),
              !.cycleValid = FALSE]

AddNodeUnsafe(g, id, dependencies) ==
    [g EXCEPT !.nodes = g.nodes \cup {id},
              !.edges = MapPut(g.edges, id, dependencies),
              !.cycleValid = FALSE]

RemoveNodeUnsafe(g, id) ==
    [g EXCEPT !.nodes = g.nodes \ {id},
              !.edges = MapDel(g.edges, id),
              !.cycleValid = FALSE]

EdgesOf(g, id) == IF id \in DOMAIN g.edges THEN g.edges[id] ELSE << >>

RECURSIVE dfs(_, _, _, _)
RECURSIVE dfsDeps(_, _, _, _, _)
RECURSIVE dfsDepsNoGray(_, _, _, _, _)

\* dfsDeps without the test of the gray set: a back edge is never reported.
dfsDepsNoGray(g, id, i, white, gray) ==
    LET deps == EdgesOf(g, id) IN
    IF i > Len(deps)
    THEN [found |-> FALSE, white |-> white, gray |-> gray \ {id}]
    ELSE LET dep == deps[i] IN
         IF dep \notin g.nodes THEN dfsDepsNoGray(g, id, i + 1, white, gray)
         ELSE IF dep \in white
              THEN LET r == dfs(g, dep, white, gray) IN
                   IF r.found THEN r ELSE dfsDepsNoGray(g, id, i + 1, r.white, r.gray)
              ELSE dfsDepsNoGray(g, id, i + 1, white, gray)

\* The closure dfs of hasCycleUnsafe: the result and the colour maps it leaves.
dfs(g, id, white, gray) == dfsDeps(g, id, 1, white \ {id}, gray \cup {id})

dfsDeps(g, id, i, white, gray) ==
    LET deps == EdgesOf(g, id) IN
    IF i > Len(deps)
    THEN [found |-> FALSE, white |-> white, gray |-> gray \ {id}]
    ELSE LET dep == deps[i] IN
         IF dep \notin g.nodes THEN dfsDeps(g, id, i + 1, white, gray)
         ELSE IF dep \in gray THEN [found |-> TRUE, white |-> white, gray |-> gray]
         ELSE IF dep \in white
              THEN LET r == dfs(g, dep, white, gray) IN
                   IF r.found THEN r ELSE dfsDeps(g, id, i + 1, r.white, r.gray)
              ELSE dfsDeps(g, id, i + 1, white, gray)

RECURSIVE hasCycleLoop(_, _, _, _, _)

hasCycleLoop(g, ord, i, white, gray) ==
    IF i > Len(ord) THEN FALSE
    ELSE IF ord[i] \in white
         THEN LET r == dfs(g, ord[i], white, gray) IN
              IF r.found THEN TRUE ELSE hasCycleLoop(g, ord, i + 1, r.white, r.gray)
         ELSE hasCycleLoop(g, ord, i + 1, white, gray)

\* ord: the order in which "for id := range g.nodes" yields the nodes.
hasCycleUnsafe(g, ord) == hasCycleLoop(g, ord, 1, g.nodes, {})

\* HasCycle: the answers the call can give and the graph (cache) it leaves.
HasCycle(g) ==
    IF g.cycleValid
    THEN {[result |-> g.hasCycle, graph |-> g]}
    ELSE {[result |-> r, graph |-> [g EXCEPT !.hasCycle = r, !.cycleValid = TRUE]] :
            r \in {hasCycleUnsafe(g, ord) : ord \in Perms(g.nodes)}}

\* The dependencies of id that are nodes of the graph.
ExistingDeps(g, id) == SelectSeq(EdgesOf(g, id), LAMBDA d : d \in g.nodes)

\* inDegree that counts every listed dependency.
InDegreeOfListed(g) == [id \in g.nodes |-> Len(EdgesOf(g, id))]

\* inDegree as TopologicalSort counts it: one per listed dependency that exists.
InDegree(g) == [id \in g.nodes |-> Len(ExistingDeps(g, id))]

RECURSIVE DependentsOf(_, _, _, _)

\* dependents[dep], filled while "for id, deps := range g.edges" yields edgeOrd.
DependentsOf(g, edgeOrd, i, dep) ==
    IF i > Len(edgeOrd) THEN << >>
    ELSE LET id == edgeOrd[i]
             occ == SelectSeq(EdgesOf(g, id), LAMBDA d : d = dep)
         IN [j \in 1..Len(occ) |-> id] \o DependentsOf(g, edgeOrd, i + 1, dep)

RECURSIVE Relax(_, _, _, _)

\* The inner loop of TopologicalSort over dependents[node].
Relax(ds, i, inDeg, queue) ==
    IF i > Len(ds) THEN [inDegree |-> inDeg, queue |-> queue]
    ELSE LET n == inDeg[ds[i]] - 1 IN
         Relax(ds, i + 1, [inDeg EXCEPT ![ds[i]] = n],
               IF n = 0 THEN Append(queue, ds[i]) ELSE queue)

RECURSIVE Kahn(_, _, _, _, _)

\* The queue loop of TopologicalSort.
Kahn(g, edgeOrd, inDeg, queue, sorted) ==
    IF queue = << >> THEN sorted
    ELSE LET node == Head(queue)
             r == Relax(IF node \in g.nodes THEN DependentsOf(g, edgeOrd, 1, node) ELSE << >>,
                        1, inDeg, Tail(queue))
         IN Kahn(g, edgeOrd, r.inDegree, r.queue, Append(sorted, node))

\* edgeOrd: the order "range g.edges" yields; degOrd: the order "range inDegree" yields.
TopologicalSort(g, edgeOrd, degOrd) ==
    LET inDeg == InDegree(g)
        queue == SelectSeq(degOrd, LAMBDA id : inDeg[id] = 0)
        sorted == Kahn(g, edgeOrd, inDeg, queue, << >>)
    IN IF Len(sorted) # Cardinality(g.nodes)
       THEN [order |-> << >>, err |-> "CycleDetected"]
       ELSE [order |-> sorted, err |-> "nil"]

\* The results a call of StartupOrder can give.
StartupOrder(g) ==
    {TopologicalSort(g, eo, no) : eo \in Perms(DOMAIN g.edges), no \in Perms(g.nodes)}

\* The identity in place of the reversal.
NotReversed(r) == r

ReverseTopologicalSort(r) ==
    IF r.err # "nil" THEN r ELSE [order |-> Reverse(r.order), err |-> "nil"]

\* The results a call of ShutdownOrder can give (it sorts again, then reverses).
ShutdownOrder(g) == {ReverseTopologicalSort(r) : r \in StartupOrder(g)}

Max(S) == CHOOSE x \in S : \A y \in S : y <= x

RECURSIVE calculateLevel(_, _)

\* Every node at level 0.
calculateLevelFlat(g, id) == 0

calculateLevel(g, id) ==
    LET ex == Range(ExistingDeps(g, id)) IN
    IF ex = {} THEN 0 ELSE 1 + Max({calculateLevel(g, d) : d \in ex})

\* The groups by ascending level; Nodes of a group as a set (its order is the map's).
ParallelStartupGroups(g) ==
    IF g.nodes = {} THEN << >>
    ELSE LET maxLevel == Max({calculateLevel(g, id) : id \in g.nodes}) IN
         [l \in 1..(maxLevel + 1) |-> {id \in g.nodes : calculateLevel(g, id) = l - 1}]

ParallelShutdownGroups(g) == Reverse(ParallelStartupGroups(g))

\* The sequential orders as groups of one key each.
Singletons(order) == [i \in 1..Len(order) |-> {order[i]}]

\* ---------------------------------------------------------------- registry

\* An instance: the key and provider (or value) it came from, the number of the
\* provider invocation that made it, the number of decorators applied to it.
NoInst == [key |-> "nil", src |-> "nil", n |-> 0, dec |-> 0]

ProviderEntry(key, provider, dependencies) ==
    [Key |-> key, Provider |-> provider, Instance |-> NoInst, Instantiated |-> FALSE,
     Dependencies |-> dependencies, OnStart |-> 0, OnStop |-> 0,
     Scope |-> "Singleton", PoolSize |-> 0, poolCap |-> 0, pool |-> << >>,
     Lazy |-> FALSE, StartRan |-> FALSE]

ValueEntry(key, value) ==
    [Key |-> key, Provider |-> "nil",
     Instance |-> [key |-> key, src |-> value, n |-> 0, dec |-> 0],
     Instantiated |-> TRUE, Dependencies |-> << >>, OnStart |-> 0, OnStop |-> 0,
     Scope |-> "Singleton", PoolSize |-> 0, poolCap |-> 0, pool |-> << >>,
     Lazy |-> FALSE, StartRan |-> FALSE]

\* No entry.
NoEntry == ProviderEntry("nil", "nil", << >>)

RegistryRegister(svc, key, provider, dependencies) ==
    MapPut(svc, key, ProviderEntry(key, provider, dependencies))

RegisterUnsafe(svc, key, provider, dependencies) ==
    MapPut(svc, key, ProviderEntry(key, provider, dependencies))

RegistryRegisterValue(svc, key, value) == MapPut(svc, key, ValueEntry(key, value))

RegisterValueUnsafe(svc, key, value) == MapPut(svc, key, ValueEntry(key, value))

HasUnsafe(svc, key) == key \in DOMAIN svc

Remove(svc, key) == MapDel(svc, key)

RemoveUnsafe(svc, key) == MapDel(svc, key)

\* No entry is taken for lazy.
IsLazyNever(svc, k) == FALSE

IsLazy(svc, k) == k \in DOMAIN svc /\ svc[k].Lazy

SetStartRan(svc, k) == IF k \in DOMAIN svc THEN [svc EXCEPT ![k].StartRan = TRUE] ELSE svc

SetInstance(svc, k, instance) ==
    IF k \in DOMAIN svc
    THEN [svc EXCEPT ![k].Instance = instance, ![k].Instantiated = TRUE]
    ELSE svc

AddOnStart(svc, k, n) == IF k \in DOMAIN svc THEN [svc EXCEPT ![k].OnStart = @ + n] ELSE svc

AddOnStop(svc, k, n) == IF k \in DOMAIN svc THEN [svc EXCEPT ![k].OnStop = @ + n] ELSE svc

SetLazy(svc, k, lazy) == IF k \in DOMAIN svc THEN [svc EXCEPT ![k].Lazy = lazy] ELSE svc

SetScope(svc, k, s) == IF k \in DOMAIN svc THEN [svc EXCEPT ![k].Scope = s] ELSE svc

\* SetPoolSize: a channel of capacity size is made when size > 0.
SetPoolSize(svc, k, size) ==
    IF k \notin DOMAIN svc THEN svc
    ELSE IF size > 0
         THEN [svc EXCEPT ![k].PoolSize = size, ![k].poolCap = size, ![k].pool = << >>]
         ELSE [svc EXCEPT ![k].PoolSize = size]

\* The instance received from entry.pool stays in it.
AcquireFromPoolKeep(svc, k) == svc

\* AcquireFromPool: the registry after the non-blocking receive from entry.pool.
AcquireFromPool(svc, k) ==
    IF k \in DOMAIN svc /\ svc[k].pool # << >>
    THEN [svc EXCEPT ![k].pool = Tail(@)]
    ELSE svc

\* The send to entry.pool never finds the channel full.
poolHasRoomAlways(entry) == TRUE

\* ReleaseToPool, lines 286-288: the send proceeds when the channel is not full.
poolHasRoom(entry) == Len(entry.pool) < entry.poolCap

\* ReleaseToPool: the registry after the non-blocking send, and what is returned.
ReleaseToPool(svc, k, instance) ==
    IF k \notin DOMAIN svc \/ svc[k].poolCap = 0
    THEN [svc |-> svc, ok |-> "false"]
    ELSE IF poolHasRoom(svc[k])
         THEN [svc |-> [svc EXCEPT ![k].pool = Append(@, instance)], ok |-> "true"]
         ELSE [svc |-> svc, ok |-> "false"]

\* ------------------------------------------------------------------- state

VARIABLES
    services,    \* Registry.services: key -> ServiceEntry
    graph,       \* Container.graph: nodes, edges and the HasCycle cache
    decorators,  \* Container.decorators: key -> number of decorators
    state,       \* Container.state
    parallel,    \* Container.parallel
    resolving,   \* Container.resolving
    expired,     \* ctx.Err() != nil for the context of the running Stop
    pc,          \* control point of each caller and of each group goroutine
    key,         \* the service a thread is starting or stopping (a goroutine: its own)
    idx,         \* hooks of the entry it holds that a thread has left to run
    herr,        \* startErr / stopErr of the service routine of a thread
    todo,        \* the part of the order (or of the groups) not yet visited
    errs,        \* errs collected by the running Stop
    spawned,     \* goroutines of the group being joined
    errCh,       \* errCh of the startGroup being joined
    stack,       \* Resolve frames of each thread, innermost last
    rres,        \* result of the outermost Resolve of a thread
    ret,         \* what the step just taken returned to a caller of Start, Stop or Resolve
    regRet,      \* what the last Register/Replace call returned
    provCalls,   \* number of invocations of the provider of each key
    scopeCalls,  \* the same for a request-scoped entry, by the request scope resolved in
    startOrder,  \* services in the order the running Start ran their OnStart hooks
    stopOrder,   \* services in the order the running Stop ran their OnStop hooks
    startDone,   \* OnStart hooks of each key completed by the running Start
    stopDone,    \* OnStop hooks of each key completed by the running Stop
    stopFailed,  \* OnStop hooks of each key that returned an error to the running Stop
    lazyDone,    \* OnStart hooks of each key completed by runLazyStart, over all calls
    observers,   \* Container.onResolve: the number of resolve observers
    resolved,    \* the call the step just taken made to every resolve observer
    requests,    \* RequestScope.instances of each context made by WithRequestScope
    reports,     \* the reports the last checkHealth made, in the order it returned them
    graphRet,    \* what the last call made on the graph alone returned
    locking      \* the mutexes of the container and where each goroutine is among them

regVars == <<services, graph, regRet>>

lifeVars == <<decorators, state, parallel, resolving, expired, pc, key, idx, herr, todo,
              errs, spawned, errCh, stack, rres, ret, provCalls, scopeCalls, startOrder, stopOrder,
              startDone, stopDone, stopFailed, lazyDone, observers, resolved, requests,
              reports, graphRet, locking>>

\* lifeVars without the calls of Resolve in progress.
lifeButStack == <<decorators, state, parallel, resolving, expired, pc, key, idx, herr, todo,
                  errs, spawned, errCh, rres, ret, provCalls, scopeCalls, startOrder,
                  stopOrder, startDone, stopDone, stopFailed, lazyDone, observers, resolved,
                  requests, reports, graphRet, locking>>

vars == <<services, graph, decorators, state, parallel, resolving, expired, pc, key, idx,
          herr, todo, errs, spawned, errCh, stack, rres, ret, regRet, provCalls, scopeCalls,
          startOrder, stopOrder, startDone, stopDone, stopFailed, lazyDone, observers,
          resolved, requests, reports, graphRet, locking>>

Procs == Callers \cup Keys

NoErr == [code |-> "nil", key |-> "nil"]

Err(code, k) == [code |-> code, key |-> k]

NoCall == [op |-> "none", key |-> "nil", code |-> "nil"]

NoRes == [inst |-> NoInst, err |-> NoErr]

NoRet == [by |-> "nil", op |-> "none", key |-> "nil", code |-> "nil", inst |-> NoInst]

\* No observer was called.
NoEvent == [key |-> "nil", code |-> "nil", n |-> 0]

\* A context that holds no request scope.
NoScope == "none"

\* The contexts made by WithRequestScope.
RequestCtxs == {"r1", "r2"}

\* wrappedProvider of Bind: it resolves the implementation key.
BindProvider == "bind"

\* A provider that calls r.Resolve before it returns.
ResolvingProvider == "pr"

\* What the call op of caller t returned.
Ret(t, op, k, code, inst) == [by |-> t, op |-> op, key |-> k, code |-> code, inst |-> inst]

\* ------------------------------------------------------------ registration

\* Register whose rollback removes the registry entry but leaves the graph node.
RegisterNodeLeft(k, provider, dependencies) ==
    /\ IF HasUnsafe(services, k)
       THEN /\ regRet' = [op |-> "Register", key |-> k, code |-> "DuplicateService"]
            /\ UNCHANGED <<services, graph>>
       ELSE LET s1 == RegisterUnsafe(services, k, provider, dependencies)
                g1 == AddNodeUnsafe(graph, k, dependencies)
            IN \E o \in HasCycle(g1) :
                 IF o.result
                 THEN /\ services' = RemoveUnsafe(s1, k)
                      /\ graph' = o.graph
                      /\ regRet' = [op |-> "Register", key |-> k, code |-> "CircularDependency"]
                 ELSE /\ services' = s1
                      /\ graph' = o.graph
                      /\ regRet' = [op |-> "Register", key |-> k, code |-> "nil"]
    /\ UNCHANGED lifeVars

\* Container.Register (holds c.mu from the duplicate check to the rollback).
Register(k, provider, dependencies) ==
    /\ IF HasUnsafe(services, k)
       THEN /\ regRet' = [op |-> "Register", key |-> k, code |-> "DuplicateService"]
            /\ UNCHANGED <<services, graph>>
       ELSE LET s1 == RegisterUnsafe(services, k, provider, dependencies)
                g1 == AddNodeUnsafe(graph, k, dependencies)
            IN \E o \in HasCycle(g1) :
                 IF o.result
                 THEN /\ services' = RemoveUnsafe(s1, k)
                      /\ graph' = RemoveNodeUnsafe(o.graph, k)
                      /\ regRet' = [op |-> "Register", key |-> k, code |-> "CircularDependency"]
                 ELSE /\ services' = s1
                      /\ graph' = o.graph
                      /\ regRet' = [op |-> "Register", key |-> k, code |-> "nil"]
    /\ UNCHANGED lifeVars

\* Container.RegisterValue
RegisterValue(k, value) ==
    /\ IF HasUnsafe(services, k)
       THEN /\ regRet' = [op |-> "RegisterValue", key |-> k, code |-> "DuplicateService"]
            /\ UNCHANGED <<services, graph>>
       ELSE /\ services' = RegisterValueUnsafe(services, k, value)
            /\ graph' = AddNodeUnsafe(graph, k, << >>)
            /\ regRet' = [op |-> "RegisterValue", key |-> k, code |-> "nil"]
    /\ UNCHANGED lifeVars

\* Replace whose rollback removes the registry entry but leaves the graph node.
ReplaceNodeLeft(k, provider, dependencies) ==
    /\ LET s1 == RegistryRegister(Remove(services, k), k, provider, dependencies)
           g1 == AddNode(RemoveNode(graph, k), k, dependencies)
       IN \E o \in HasCycle(g1) :
            IF o.result
            THEN /\ services' = Remove(s1, k)
                 /\ graph' = o.graph
                 /\ regRet' = [op |-> "Replace", key |-> k, code |-> "CircularDependency"]
            ELSE /\ services' = s1
                 /\ graph' = o.graph
                 /\ regRet' = [op |-> "Replace", key |-> k, code |-> "nil"]
    /\ UNCHANGED lifeVars

\* The provider that Replace registers in place of a provider of Providers.
ReplacementProvider == "p2"

\* The calls of Resolve in progress after the registry has dropped the entry
\* of key k: a call that got the entry (Resolve, line 32) still holds it.
Orphaned(k) ==
    [t \in DOMAIN stack |->
       IF stack[t] = << >>
       THEN << >>
       ELSE [i \in DOMAIN stack[t] |->
               IF stack[t][i].key = k /\ stack[t][i].phase # "body" /\ ~stack[t][i].orphan
               THEN [stack[t][i] EXCEPT !.orphan = TRUE, !.entry = services[k]]
               ELSE stack[t][i]]]

\* Replace that hands the OnStop hooks of the replaced entry to the new one.
ReplaceKeepsHooks(k, provider, dependencies) ==
    /\ services' = AddOnStop(RegistryRegister(Remove(services, k), k, provider, dependencies),
                             k, IF k \in DOMAIN services THEN services[k].OnStop ELSE 0)
    /\ graph' = [AddNode(RemoveNode(graph, k), k, dependencies) EXCEPT !.cycleValid = TRUE]
    /\ regRet' = [op |-> "Replace", key |-> k, code |-> "nil"]
    /\ stack' = Orphaned(k)
    /\ UNCHANGED lifeButStack

\* Container.Replace (holds c.mu throughout).
Replace(k, provider, dependencies) ==
    /\ LET s1 == RegistryRegister(Remove(services, k), k, provider, dependencies)
           g1 == AddNode(RemoveNode(graph, k), k, dependencies)
       IN \E o \in HasCycle(g1) :
            IF o.result
            THEN /\ services' = Remove(s1, k)
                 /\ graph' = RemoveNode(o.graph, k)
                 /\ regRet' = [op |-> "Replace", key |-> k, code |-> "CircularDependency"]
            ELSE /\ services' = s1
                 /\ graph' = o.graph
                 /\ regRet' = [op |-> "Replace", key |-> k, code |-> "nil"]
    /\ stack' = Orphaned(k)
    /\ UNCHANGED lifeButStack

\* Container.ReplaceValue
ReplaceValue(k, value) ==
    /\ services' = RegistryRegisterValue(Remove(services, k), k, value)
    /\ graph' = AddNode(RemoveNode(graph, k), k, << >>)
    /\ regRet' = [op |-> "ReplaceValue", key |-> k, code |-> "nil"]
    /\ stack' = Orphaned(k)
    /\ UNCHANGED lifeButStack

\* c.mu, registry.mu, graph.mu, c.resolvingMu and c.decoratorsMu.
Mutexes == {"mu", "registry", "graph", "resolving", "decorators"}

\* The goroutines that call the container.
Goroutines == {"g1", "g2"}

\* No mutex is held and no goroutine is in a call.
NoLocking ==
    [held |-> [l \in Mutexes |-> [w |-> "none", r |-> [t \in Goroutines |-> 0]]],
     at |-> [t \in Goroutines |-> << >>]]

\* No call has been made on the graph alone.
NoGraphRet == [op |-> "none", result |-> FALSE, order |-> << >>, err |-> "nil", cycles |-> << >>]

\* container.New: state New, nothing resolved, started or stopped, no call made.
Fresh ==
    /\ state = "New"
    /\ resolving = {}
    /\ expired = FALSE
    /\ pc = [t \in Procs |-> IF t \in Callers THEN "idle" ELSE "off"]
    /\ key = [t \in Procs |-> IF t \in Keys THEN t ELSE "nil"]
    /\ idx = [t \in Procs |-> 0]
    /\ herr = [t \in Procs |-> NoErr]
    /\ todo = << >>
    /\ errs = << >>
    /\ spawned = {}
    /\ errCh = << >>
    /\ stack = [t \in Procs |-> << >>]
    /\ rres = [t \in Procs |-> NoRes]
    /\ ret = NoRet
    /\ regRet = NoCall
    /\ provCalls = [k \in Keys |-> 0]
    /\ scopeCalls = [c \in RequestCtxs |-> [k \in Keys |-> 0]]
    /\ startOrder = << >>
    /\ stopOrder = << >>
    /\ startDone = [k \in Keys |-> 0]
    /\ stopDone = [k \in Keys |-> 0]
    /\ stopFailed = [k \in Keys |-> 0]
    /\ lazyDone = [k \in Keys |-> 0]
    /\ resolved = NoEvent
    /\ requests = [c \in RequestCtxs |-> EmptyMap]
    /\ reports = << >>
    /\ graphRet = NoGraphRet
    /\ locking = NoLocking

\* container.New: an empty registry and graph, state New.
InitReg ==
    /\ services = EmptyMap
    /\ graph = NewGraph
    /\ decorators = [k \in Keys |-> 0]
    /\ parallel = FALSE
    /\ observers = 0
    /\ Fresh

NextReg ==
    \/ \E k \in Keys, p \in Providers, d \in DepSeqs : Register(k, p, d)
    \/ \E k \in Keys, v \in Values : RegisterValue(k, v)
    \/ \E k \in Keys, p \in Providers, d \in DepSeqs : Replace(k, p, d)
    \/ \E k \in Keys, v \in Values : ReplaceValue(k, v)

SpecReg == InitReg /\ [][NextReg]_vars

\* --------------------------------------------------------------- lifecycle

cfgVars == <<graph, decorators, parallel, regRet, observers, reports, graphRet, locking>>

histVars == <<startOrder, stopOrder, startDone, stopDone, stopFailed, lazyDone>>

KeyOrder == <<"a", "b", "c">>

Rank(k) == CHOOSE i \in DOMAIN KeyOrder : KeyOrder[i] = k

\* The dependency lists of the registered configurations: each key lists keys
\* registered before it (in the order of their registration), as Register
\* accepts them without a cycle.
DepChoices ==
    {f \in [Keys -> DepSeqs] :
       \A k \in Keys : \A i \in DOMAIN f[k] :
          /\ Rank(f[k][i]) < Rank(k)
          /\ \A j \in DOMAIN f[k] : i < j => Rank(f[k][i]) < Rank(f[k][j])}

\* The entry of key k after Provide with its options.
ConfiguredEntry(k, dependencies, lazy) ==
    LET svc0 == RegisterUnsafe(EmptyMap, k, CHOOSE p \in Providers : TRUE, dependencies)
        svc1 == AddOnStop(AddOnStart(svc0, k, MaxHooks), k, MaxHooks)
    IN SetLazy(svc1, k, lazy)[k]

RECURSIVE ConfiguredGraph(_, _)

ConfiguredGraph(f, i) ==
    IF i = 0 THEN NewGraph
    ELSE AddNodeUnsafe(ConfiguredGraph(f, i - 1), KeyOrder[i], f[KeyOrder[i]])

\* A container on which every key has been registered and HasCycle has answered.
Init ==
    /\ \E f \in DepChoices, lz \in SUBSET Keys :
         /\ services = [k \in Keys |-> ConfiguredEntry(k, f[k], k \in lz)]
         /\ graph = [ConfiguredGraph(f, Len(KeyOrder)) EXCEPT !.cycleValid = TRUE]
    /\ parallel \in BOOLEAN
    /\ decorators = [k \in Keys |-> 0]
    /\ observers = 0
    /\ Fresh

\* ----------------------------------------------------------------- Resolve

\* The last call on the registry was a Replace or ReplaceValue of key k that
\* returned nil.
ReplaceReturned(k) ==
    regRet.op \in {"Replace", "ReplaceValue"} /\ regRet.key = k /\ regRet.code = "nil"

\* A Resolve in progress: the key, the context it was called with, how far it
\* is, the result of the Resolve its provider made, once Replace has taken
\* its entry out of the registry the entry it still holds, and whether it
\* began after a Replace of its key had returned.
Frame(k, ctx) ==
    [key |-> k, phase |-> "body", i |-> 0, ctx |-> ctx, got |-> NoRes,
     orphan |-> FALSE, entry |-> NoEntry, after |-> ReplaceReturned(k)]

Top(t) == stack[t][Len(stack[t])]

InResolve(t) == pc[t] \in {"startResolve", "userResolve"} /\ stack[t] # << >>

SetTop(t, f) == [stack EXCEPT ![t] = [stack[t] EXCEPT ![Len(stack[t])] = f]]

\* The *ServiceEntry that the innermost Resolve of thread t got from the
\* registry (Resolve, line 32).
EntryOf(t) == IF Top(t).orphan THEN Top(t).entry ELSE services[Top(t).key]

\* The observers are called only when Resolve returns no error.
callResolveHooksOnSuccess(k, code) ==
    IF observers = 0 \/ code # "nil"
    THEN NoEvent
    ELSE [key |-> k, code |-> code, n |-> observers]

\* callResolveHooks: every registered resolve observer is called with the key
\* and the error.
callResolveHooks(k, code) ==
    IF observers = 0 THEN NoEvent ELSE [key |-> k, code |-> code, n |-> observers]

\* The innermost Resolve of thread t returns r: to the Resolve that called it
\* for a dependency, to the provider that called it, to startService, or to
\* the caller of Resolve.
ResolveReturn(t, r) ==
    LET stk == SubSeq(stack[t], 1, Len(stack[t]) - 1) IN
    /\ resolved' = callResolveHooks(Top(t).key, r.err.code)
    /\ IF stk = << >>
       THEN /\ stack' = [stack EXCEPT ![t] = << >>]
            /\ IF pc[t] = "userResolve"
               THEN /\ pc' = [pc EXCEPT ![t] = "idle"]
                    /\ ret' = Ret(t, "Resolve", Top(t).key, r.err.code, r.inst)
                    /\ UNCHANGED rres
               ELSE /\ pc' = [pc EXCEPT ![t] = "startResolved"]
                    /\ rres' = [rres EXCEPT ![t] = r]
                    /\ ret' = NoRet
       ELSE LET parent == stk[Len(stk)] IN
            /\ stack' = [stack EXCEPT ![t] =
                           [stk EXCEPT ![Len(stk)] =
                              IF parent.phase = "provWait"
                              THEN [parent EXCEPT !.phase = "provRet", !.got = r]
                              ELSE IF r.err = NoErr
                                   THEN [parent EXCEPT !.phase = "deps", !.i = parent.i + 1]
                                   ELSE [parent EXCEPT !.phase = "fail"]]]
            /\ ret' = NoRet
            /\ UNCHANGED <<rres, pc>>

\* No request scope ever holds an instance.
requestCachedNever(rs, k) == FALSE

\* RequestScope.Get: the scope holds an instance of the key.
requestCached(rs, k) == k \in DOMAIN rs

\* No key is ever found marked.
isResolvingNever(k) == FALSE

\* Resolve, line 16: c.resolving[key]
isResolving(k) == k \in resolving

\* applyDecorators: the instance after the decorators registered for key.
\* applyDecorators that passes over what the replacement provider built.
applyDecoratorsOfOriginal(k, instance) ==
    IF instance.src = ReplacementProvider THEN instance
    ELSE [instance EXCEPT !.dec = @ + decorators[k]]

applyDecorators(k, instance) == [instance EXCEPT !.dec = @ + decorators[k]]

\* applyDecorators, lines 25-31: a decorator of key k can return an error.
decoratorCanFail(k) == decorators[k] > 0

\* The OnStart hooks of a lazy entry are never run by Resolve.
needsLazyStartNever(entry, s) == FALSE

\* The OnStart hooks of a lazy entry are run by its first Resolve in any state.
needsLazyStartAnyState(entry, s) == entry.Lazy /\ ~entry.StartRan

\* resolveSingleton, line 90
needsLazyStart(entry, s) == entry.Lazy /\ ~entry.StartRan /\ s = "Running"

\* resolveSingleton, lines 88-96: the instance is stored and the lazy start is
\* decided.
StoreSingleton(t, instance) ==
    LET k == Top(t).key
        entry == EntryOf(t)
    IN /\ IF needsLazyStart(entry, state)
          THEN IF entry.OnStart = 0
               THEN /\ services' = SetStartRan(SetInstance(services, k, instance), k)
                    /\ ResolveReturn(t, [inst |-> instance, err |-> NoErr])
                    /\ resolving' = resolving \ {k}
               ELSE /\ services' = SetInstance(services, k, instance)
                    /\ stack' = SetTop(t, [Top(t) EXCEPT
                                            !.phase = "lazyHookRun", !.i = 1,
                                            !.got = [inst |-> instance, err |-> NoErr]])
                    /\ ret' = NoRet
                    /\ resolved' = NoEvent
                    /\ UNCHANGED <<resolving, rres, pc>>
          ELSE /\ services' = SetInstance(services, k, instance)
               /\ ResolveReturn(t, [inst |-> instance, err |-> NoErr])
               /\ resolving' = resolving \ {k}
       /\ UNCHANGED requests

\* resolveRequest, lines 194-195: the instance is stored in the request scope.
StoreRequest(t, instance) ==
    /\ requests' = [requests EXCEPT ![Top(t).ctx] = MapPut(@, Top(t).key, instance)]
    /\ ResolveReturn(t, [inst |-> instance, err |-> NoErr])
    /\ resolving' = resolving \ {Top(t).key}
    /\ UNCHANGED services

\* resolveTransient, line 128, and resolvePooled, line 214: nothing is stored.
StoreNothing(t, instance) ==
    /\ ResolveReturn(t, [inst |-> instance, err |-> NoErr])
    /\ resolving' = resolving \ {Top(t).key}
    /\ UNCHANGED <<services, requests>>

\* The provider of the innermost Resolve of thread t returned raw: the
\* decorators are applied and the instance is stored as the scope says.
ProviderReturned(t, raw) ==
    LET k == Top(t).key
        scp == EntryOf(t).Scope
        instance == applyDecorators(k, raw)
    IN \/ /\ decoratorCanFail(k)
          /\ ResolveReturn(t, [inst |-> NoInst, err |-> Err("DecoratorFailed", k)])
          /\ resolving' = resolving \ {k}
          /\ UNCHANGED <<services, requests>>
       \/ IF scp = "Request" THEN StoreRequest(t, instance)
          ELSE IF scp \in {"Transient", "Pooled"} THEN StoreNothing(t, instance)
          ELSE StoreSingleton(t, instance)

\* The provider of the innermost Resolve of thread t returned an error.
ProviderFailed(t) ==
    /\ ResolveReturn(t, [inst |-> NoInst, err |-> Err("ProviderFailed", Top(t).key)])
    /\ resolving' = resolving \ {Top(t).key}
    /\ UNCHANGED <<services, requests>>

\* Resolve, lines 15-23, called by the provider of the innermost Resolve of
\* thread t for key x.
ProviderResolves(t, x) ==
    /\ IF isResolving(x)
       THEN /\ stack' = SetTop(t, [Top(t) EXCEPT
                                    !.phase = "provRet",
                                    !.got = [inst |-> NoInst,
                                             err |-> Err("CircularResolution", x)]])
            /\ resolved' = callResolveHooks(x, "CircularResolution")
            /\ UNCHANGED resolving
       ELSE /\ stack' = [stack EXCEPT ![t] =
                           Append(SetTop(t, [Top(t) EXCEPT !.phase = "provWait"])[t],
                                  Frame(x, Top(t).ctx))]
            /\ resolving' = resolving \cup {x}
            /\ resolved' = NoEvent
    /\ ret' = NoRet
    /\ UNCHANGED <<services, requests, rres, pc>>

\* The provider of the entry is invoked (resolveSingleton, line 78, and the
\* same line of the other scopes). A provider registered by Provide returns
\* an instance or an error; the provider registered by Bind resolves the
\* implementation key, its one dependency; a provider of the third kind
\* resolves some key before it returns.
InvokeProvider(t) ==
    LET k == Top(t).key
        entry == EntryOf(t)
    IN /\ provCalls[k] < MaxProvCalls
       /\ provCalls' = [provCalls EXCEPT ![k] = @ + 1]
       /\ scopeCalls' = IF entry.Scope = "Request"
                        THEN [scopeCalls EXCEPT ![Top(t).ctx][k] = @ + 1]
                        ELSE scopeCalls
       /\ IF entry.Provider = BindProvider
          THEN ProviderResolves(t, entry.Dependencies[1])
          ELSE IF entry.Provider = ResolvingProvider
               THEN \E x \in Keys : ProviderResolves(t, x)
               ELSE \/ ProviderFailed(t)
                    \/ ProviderReturned(t, [key |-> k, src |-> entry.Provider,
                                            n |-> provCalls[k] + 1, dec |-> 0])

\* The loop over entry.Dependencies, from dependency i on: Resolve of the next
\* dependency begins (Resolve, lines 15-23), or the provider is invoked.
ResolveFrom(t, i) ==
    LET deps == EntryOf(t).Dependencies IN
    IF i > Len(deps)
    THEN InvokeProvider(t)
    ELSE /\ IF isResolving(deps[i])
            THEN /\ stack' = SetTop(t, [Top(t) EXCEPT !.phase = "fail"])
                 /\ resolved' = callResolveHooks(deps[i], "CircularResolution")
                 /\ UNCHANGED resolving
            ELSE /\ stack' = [stack EXCEPT ![t] =
                                Append(SetTop(t, [Top(t) EXCEPT !.phase = "wait", !.i = i])[t],
                                       Frame(deps[i], Top(t).ctx))]
                 /\ resolving' = resolving \cup {deps[i]}
                 /\ resolved' = NoEvent
         /\ ret' = NoRet
         /\ UNCHANGED <<services, requests, provCalls, scopeCalls, rres, pc>>

\* The cache is never consulted.
CachedNever(entry) == FALSE

\* resolveSingleton, line 68
Cached(entry) == entry.Instantiated

\* Resolve returns inst, which it found without invoking the provider.
ResolveHit(t, inst) ==
    /\ ResolveReturn(t, [inst |-> inst, err |-> NoErr])
    /\ resolving' = resolving \ {Top(t).key}
    /\ UNCHANGED <<requests, provCalls, scopeCalls>>

\* Resolve, lines 31-41, resolveWithScope, and the scope's routine up to its
\* first call: the instance the scope keeps is returned, or the dependencies
\* are resolved.
ResolveBody(t) ==
    /\ InResolve(t)
    /\ Top(t).phase = "body"
    /\ LET k == Top(t).key IN
       IF k \notin DOMAIN services
       THEN /\ ResolveReturn(t, [inst |-> NoInst, err |-> Err("ServiceNotFound", k)])
            /\ resolving' = resolving \ {k}
            /\ UNCHANGED <<services, requests, provCalls, scopeCalls>>
       ELSE LET entry == services[k] IN
            IF entry.Scope = "Request"
            THEN IF Top(t).ctx = NoScope
                 THEN /\ ResolveReturn(t, [inst |-> NoInst, err |-> Err("NoRequestScope", k)])
                      /\ resolving' = resolving \ {k}
                      /\ UNCHANGED <<services, requests, provCalls, scopeCalls>>
                 ELSE IF requestCached(requests[Top(t).ctx], k)
                      THEN /\ ResolveHit(t, requests[Top(t).ctx][k])
                           /\ UNCHANGED services
                      ELSE ResolveFrom(t, 1)
            ELSE IF entry.Scope = "Pooled"
                 THEN IF entry.pool # << >>
                      THEN /\ ResolveHit(t, Head(entry.pool))
                           /\ services' = AcquireFromPool(services, k)
                      ELSE ResolveFrom(t, 1)
                 ELSE IF entry.Scope = "Transient"
                      THEN ResolveFrom(t, 1)
                      ELSE IF Cached(entry)
                           THEN /\ ResolveHit(t, entry.Instance)
                                /\ UNCHANGED services
                           ELSE ResolveFrom(t, 1)
    /\ UNCHANGED <<state, expired, key, idx, herr, todo, errs, spawned, errCh>>
    /\ UNCHANGED <<cfgVars, histVars>>

\* The loop over entry.Dependencies, after a dependency has been resolved.
ResolveDeps(t) ==
    /\ InResolve(t)
    /\ Top(t).phase = "deps"
    /\ ResolveFrom(t, Top(t).i)
    /\ UNCHANGED <<state, expired, key, idx, herr, todo, errs, spawned, errCh>>
    /\ UNCHANGED <<cfgVars, histVars>>

\* The loop over entry.Dependencies: a dependency failed; the deferred unmark
\* runs.
ResolveFail(t) ==
    /\ InResolve(t)
    /\ Top(t).phase = "fail"
    /\ ResolveReturn(t, [inst |-> NoInst, err |-> Err("DependencyFailed", Top(t).key)])
    /\ resolving' = resolving \ {Top(t).key}
    /\ UNCHANGED <<services, requests, state, expired, key, idx, herr, todo, errs, spawned,
                   errCh, provCalls, scopeCalls>>
    /\ UNCHANGED <<cfgVars, histVars>>

\* The provider registered by Bind returns a copy of what Resolve returned.
wrappedProviderCopies(got) == [got.inst EXCEPT !.n = @ + 1]

\* The provider registered by Bind returns what Resolve returned (README.md,
\* line 1003).
wrappedProvider(got) == got.inst

\* The Resolve that the provider made has returned, and the provider returns:
\* the provider registered by Bind what that Resolve returned, another
\* provider an instance of its own or an error.
ProviderEnd(t) ==
    /\ InResolve(t)
    /\ Top(t).phase = "provRet"
    /\ LET k == Top(t).key
           entry == EntryOf(t)
       IN IF entry.Provider = BindProvider
          THEN IF Top(t).got.err # NoErr
               THEN ProviderFailed(t)
               ELSE ProviderReturned(t, wrappedProvider(Top(t).got))
          ELSE \/ ProviderFailed(t)
               \/ ProviderReturned(t, [key |-> k, src |-> entry.Provider,
                                       n |-> provCalls[k], dec |-> 0])
    /\ UNCHANGED <<state, expired, key, idx, herr, todo, errs, spawned, errCh, provCalls, scopeCalls>>
    /\ UNCHANGED <<cfgVars, histVars>>

\* runLazyStart: the running OnStart hook returns nil or an error; after the
\* last hook, or after the error, SetStartRan.
LazyHookEnd(t) ==
    /\ InResolve(t)
    /\ Top(t).phase = "lazyHookRun"
    /\ LET k == Top(t).key IN
       \/ IF Top(t).i < EntryOf(t).OnStart
          THEN /\ stack' = SetTop(t, [Top(t) EXCEPT !.i = @ + 1])
               /\ ret' = NoRet
               /\ resolved' = NoEvent
               /\ UNCHANGED <<services, resolving, rres, pc>>
          ELSE /\ services' = SetStartRan(services, k)
               /\ ResolveReturn(t, [inst |-> Top(t).got.inst, err |-> NoErr])
               /\ resolving' = resolving \ {k}
       \/ /\ services' = SetStartRan(services, k)
          /\ ResolveReturn(t, [inst |-> NoInst, err |-> Err("HookFailed", k)])
          /\ resolving' = resolving \ {k}
    /\ lazyDone' = [lazyDone EXCEPT ![Top(t).key] = @ + 1]
    /\ UNCHANGED <<requests, state, expired, key, idx, herr, todo, errs, spawned, errCh,
                   provCalls, scopeCalls>>
    /\ UNCHANGED <<cfgVars, startOrder, stopOrder, startDone, stopDone, stopFailed>>

\* A caller calls Resolve(ctx, k): Resolve, lines 15-23.
ResolveCallIn(t, k, ctx) ==
    /\ t \in Callers
    /\ pc[t] = "idle"
    /\ IF isResolving(k)
       THEN /\ ret' = Ret(t, "Resolve", k, "CircularResolution", NoInst)
            /\ resolved' = callResolveHooks(k, "CircularResolution")
            /\ UNCHANGED <<pc, stack, resolving>>
       ELSE /\ resolving' = resolving \cup {k}
            /\ pc' = [pc EXCEPT ![t] = "userResolve"]
            /\ stack' = [stack EXCEPT ![t] = <<Frame(k, ctx)>>]
            /\ ret' = NoRet
            /\ resolved' = NoEvent
    /\ UNCHANGED <<services, requests, state, expired, key, idx, herr, todo, errs, spawned,
                   errCh, rres, provCalls, scopeCalls>>
    /\ UNCHANGED <<cfgVars, histVars>>

\* A caller calls Resolve(ctx, k) with a context that holds no request scope.
ResolveCall(t, k) == ResolveCallIn(t, k, NoScope)

\* The instance that invocation n of the provider of key k made, decorated.
Made(k, n) ==
    [key |-> k, src |-> IF k \in DOMAIN services THEN services[k].Provider ELSE "nil",
     n |-> n, dec |-> decorators[k]]

\* Container.Release, called with an instance that the provider of the key
\* has made: ReleaseToPool, the non-blocking send to entry.pool.
Release(t, k, n) ==
    /\ t \in Callers
    /\ pc[t] = "idle"
    /\ n \in 1..provCalls[k]
    /\ services' = ReleaseToPool(services, k, Made(k, n)).svc
    /\ ret' = Ret(t, "Release", k, ReleaseToPool(services, k, Made(k, n)).ok, Made(k, n))
    /\ resolved' = NoEvent
    /\ UNCHANGED <<requests, state, resolving, expired, pc, key, idx, herr, todo, errs,
                   spawned, errCh, stack, rres, provCalls, scopeCalls>>
    /\ UNCHANGED <<cfgVars, histVars>>

\* ------------------------------------------------------------------- Start

\* Start refuses no state.
canStartAlways(s) == TRUE

\* Start may be called again while the container is starting.
canStartRetry(s) == s = "New" \/ s = "Stopped" \/ s = "Starting"

\* Start, line 320
canStart(s) == s = "New" \/ s = "Stopped"

\* startSequential / startParallel: the order or the groups, as groups.
StartPlans ==
    IF parallel
    THEN {[groups |-> ParallelStartupGroups(graph), err |-> "nil"]}
    ELSE {[groups |-> Singletons(r.order), err |-> r.err] : r \in StartupOrder(graph)}

\* Start, lines 318-332, with the computation of the order.
StartCall(t) ==
    /\ resolved' = NoEvent
    /\ UNCHANGED requests
    /\ t \in Callers
    /\ pc[t] = "idle"
    /\ IF ~canStart(state)
       THEN /\ ret' = Ret(t, "Start", "nil", "AlreadyStarted", NoInst)
            /\ UNCHANGED <<state, pc, todo, errCh, histVars>>
       ELSE /\ state' = "Starting"
            /\ \E plan \in StartPlans :
                 IF plan.err # "nil"
                 THEN /\ ret' = Ret(t, "Start", "nil", plan.err, NoInst)
                      /\ UNCHANGED <<pc, todo>>
                 ELSE /\ todo' = plan.groups
                      /\ pc' = [pc EXCEPT ![t] = "startLoop"]
                      /\ ret' = NoRet
            /\ errCh' = << >>
            /\ startOrder' = << >>
            /\ stopOrder' = << >>
            /\ startDone' = [k \in Keys |-> 0]
            /\ stopDone' = [k \in Keys |-> 0]
            /\ stopFailed' = [k \in Keys |-> 0]
            /\ UNCHANGED lazyDone
    /\ UNCHANGED <<services, resolving, expired, key, idx, herr, errs, spawned, stack, rres, provCalls, scopeCalls>>
    /\ UNCHANGED cfgVars

\* The loop of startSequential / startParallel and the head of startGroup;
\* Start, lines 338-342, when no group is left.
StartLoop(t) ==
    /\ resolved' = NoEvent
    /\ UNCHANGED requests
    /\ pc[t] = "startLoop"
    /\ IF todo = << >>
       THEN /\ state' = "Running"
            /\ ret' = Ret(t, "Start", "nil", "nil", NoInst)
            /\ pc' = [pc EXCEPT ![t] = "idle"]
            /\ UNCHANGED <<todo, key, spawned, errCh>>
       ELSE LET keys == Head(todo) IN
            /\ todo' = Tail(todo)
            /\ IF Cardinality(keys) = 1
               THEN /\ key' = [key EXCEPT ![t] = CHOOSE k \in keys : TRUE]
                    /\ pc' = [pc EXCEPT ![t] = "startSvc"]
                    /\ UNCHANGED <<spawned, errCh>>
               ELSE LET go == {k \in keys : ~IsLazy(services, k)} IN
                    /\ spawned' = go
                    /\ errCh' = << >>
                    /\ pc' = [x \in Procs |-> IF x \in go THEN "startSvc"
                                              ELSE IF x = t THEN "startJoin" ELSE pc[x]]
                    /\ UNCHANGED key
            /\ ret' = NoRet
            /\ UNCHANGED state
    /\ UNCHANGED <<services, resolving, expired, idx, herr, errs, stack, rres, provCalls, scopeCalls>>
    /\ UNCHANGED <<cfgVars, histVars>>

\* The loop of Start goes on to the next service whatever startService returned.
StartServiceContinues(t, e) ==
    /\ idx' = [idx EXCEPT ![t] = 0]
    /\ pc' = [pc EXCEPT ![t] = IF t \in Callers THEN "startLoop" ELSE "done"]
    /\ key' = [key EXCEPT ![t] = IF t \in Callers THEN "nil" ELSE t]
    /\ ret' = NoRet
    /\ UNCHANGED <<errCh, todo>>

\* startService of thread t returns e: to the loop of Start (which returns a
\* non-nil e at once), or into errCh from a goroutine of startGroup.
StartServiceReturn(t, e) ==
    /\ idx' = [idx EXCEPT ![t] = 0]
    /\ IF t \in Callers
       THEN /\ key' = [key EXCEPT ![t] = "nil"]
            /\ UNCHANGED errCh
            /\ IF e = NoErr
               THEN /\ pc' = [pc EXCEPT ![t] = "startLoop"]
                    /\ ret' = NoRet
                    /\ UNCHANGED todo
               ELSE /\ pc' = [pc EXCEPT ![t] = "idle"]
                    /\ ret' = Ret(t, "Start", e.key, e.code, NoInst)
                    /\ todo' = << >>
       ELSE /\ pc' = [pc EXCEPT ![t] = "done"]
            /\ errCh' = IF e = NoErr THEN errCh ELSE Append(errCh, e)
            /\ ret' = NoRet
            /\ UNCHANGED <<key, todo>>

\* startGroup goes on without waiting for its goroutines.
groupJoinedNoWait(sp) == TRUE

\* startGroup, line 397: wg.Wait returns once every goroutine has called Done.
groupJoined(sp) == \A k \in sp : pc[k] = "done"

\* startGroup, lines 397-406: wg.Wait and the first error of errCh.
StartJoin(t) ==
    /\ resolved' = NoEvent
    /\ UNCHANGED requests
    /\ pc[t] = "startJoin"
    /\ groupJoined(spawned)
    /\ spawned' = {}
    /\ errCh' = << >>
    /\ IF errCh = << >>
       THEN /\ pc' = [x \in Procs |-> IF x \in spawned /\ pc[x] = "done" THEN "off"
                                     ELSE IF x = t THEN "startLoop" ELSE pc[x]]
            /\ ret' = NoRet
            /\ UNCHANGED todo
       ELSE /\ pc' = [x \in Procs |-> IF x \in spawned /\ pc[x] = "done" THEN "off"
                                     ELSE IF x = t THEN "idle" ELSE pc[x]]
            /\ ret' = Ret(t, "Start", Head(errCh).key, Head(errCh).code, NoInst)
            /\ todo' = << >>
    /\ UNCHANGED <<services, state, resolving, expired, key, idx, herr, errs, stack, rres, provCalls, scopeCalls>>
    /\ UNCHANGED <<cfgVars, histVars>>

\* startService, lines 410-416: a lazy service is skipped; for another Resolve
\* begins (Resolve, lines 15-23).
startService(t) ==
    /\ pc[t] = "startSvc"
    /\ IF IsLazy(services, key[t])
       THEN /\ StartServiceReturn(t, NoErr)
            /\ resolved' = NoEvent
            /\ UNCHANGED <<stack, resolving>>
       ELSE IF isResolving(key[t])
            THEN /\ StartServiceReturn(t, Err("ResolveFailed", key[t]))
                 /\ resolved' = callResolveHooks(key[t], "CircularResolution")
                 /\ UNCHANGED <<stack, resolving>>
            ELSE /\ resolving' = resolving \cup {key[t]}
                 /\ stack' = [stack EXCEPT ![t] = <<Frame(key[t], NoScope)>>]
                 /\ pc' = [pc EXCEPT ![t] = "startResolve"]
                 /\ ret' = NoRet
                 /\ resolved' = NoEvent
                 /\ UNCHANGED <<errCh, key, idx, todo>>
    /\ UNCHANGED requests
    /\ UNCHANGED <<services, state, expired, herr, errs, spawned, rres, provCalls, scopeCalls>>
    /\ UNCHANGED <<cfgVars, histVars>>

\* startService, lines 416-437: the result of Resolve and the entry; the first
\* OnStart hook begins, or there is none.
StartResolved(t) ==
    /\ resolved' = NoEvent
    /\ UNCHANGED requests
    /\ pc[t] = "startResolved"
    /\ rres' = [rres EXCEPT ![t] = NoRes]
    /\ IF rres[t].err # NoErr
       THEN /\ StartServiceReturn(t, Err("ResolveFailed", key[t]))
            /\ UNCHANGED <<services, startOrder>>
       ELSE IF key[t] \notin DOMAIN services
            THEN /\ StartServiceReturn(t, NoErr)
                 /\ UNCHANGED <<services, startOrder>>
            ELSE /\ startOrder' = Append(startOrder, key[t])
                 /\ IF services[key[t]].OnStart = 0
                    THEN /\ services' = SetStartRan(services, key[t])
                         /\ StartServiceReturn(t, NoErr)
                    ELSE /\ idx' = [idx EXCEPT ![t] = services[key[t]].OnStart]
                         /\ pc' = [pc EXCEPT ![t] = "startHookRun"]
                         /\ ret' = NoRet
                         /\ UNCHANGED <<services, errCh, key, todo>>
    /\ UNCHANGED <<state, resolving, expired, herr, errs, spawned, stack, provCalls, scopeCalls, stopOrder,
                   startDone, stopDone, stopFailed, lazyDone>>
    /\ UNCHANGED cfgVars

\* startService, lines 427-437: the running OnStart hook returns nil, and the
\* next hook begins, or it returns an error; after the loop SetStartRan.
StartHookEnd(t) ==
    /\ resolved' = NoEvent
    /\ UNCHANGED requests
    /\ pc[t] = "startHookRun"
    /\ startDone' = [startDone EXCEPT ![key[t]] = @ + 1]
    /\ \/ IF idx[t] > 1
          THEN /\ idx' = [idx EXCEPT ![t] = @ - 1]
               /\ ret' = NoRet
               /\ UNCHANGED <<services, pc, errCh, key, todo>>
          ELSE /\ services' = SetStartRan(services, key[t])
               /\ StartServiceReturn(t, NoErr)
       \/ /\ services' = SetStartRan(services, key[t])
          /\ StartServiceReturn(t, Err("HookFailed", key[t]))
    /\ UNCHANGED <<state, resolving, expired, herr, errs, spawned, stack, rres, provCalls, scopeCalls,
                   startOrder, stopOrder, stopDone, stopFailed, lazyDone>>
    /\ UNCHANGED cfgVars

\* -------------------------------------------------------------------- Stop

\* Stop also proceeds while the container is starting.
canStopStarting(s) == s = "Running" \/ s = "Starting"

\* Stop, line 448
canStop(s) == s = "Running"

\* What Stop returns when it does nothing: an error in place of nil.
stopNoopErr == "NotRunning"

\* Stop, line 450
stopNoop == "nil"

\* The context of Stop is never looked at.
ctxErrNever(e) == FALSE

\* stopSequential, line 480, and stopParallel, line 500: ctx.Err() != nil
ctxErr(e) == e

\* Stop reaches Stopped only when nothing failed.
stateAfterStopClean(es) == IF es = << >> THEN "Stopped" ELSE "Stopping"

\* Stop, lines 462-464
stateAfterStop(es) == "Stopped"

\* No entry is passed over by Stop.
IsInstantiatedAny(svc, k) == TRUE

\* stopService, lines 545-548, and stopGroup, lines 524-527
IsInstantiated(svc, k) == k \in DOMAIN svc /\ svc[k].Instantiated

\* The loop over the OnStop hooks ends at the first hook that fails.
stopHooksLeftBreak(i, e) == i > 1 /\ e = NoErr

\* stopService, line 553: the loop goes on whatever stopErr is
stopHooksLeft(i, e) == i > 1

\* stopSequential / stopParallel: the order or the groups, as groups.
StopPlans ==
    IF parallel
    THEN {[groups |-> ParallelShutdownGroups(graph), err |-> "nil"]}
    ELSE {[groups |-> Singletons(r.order), err |-> r.err] : r \in ShutdownOrder(graph)}

\* Stop, lines 446-460, with the computation of the order.
StopCall(t) ==
    /\ resolved' = NoEvent
    /\ UNCHANGED requests
    /\ t \in Callers
    /\ pc[t] = "idle"
    /\ IF ~canStop(state)
       THEN /\ ret' = Ret(t, "Stop", "nil", stopNoop, NoInst)
            /\ UNCHANGED <<state, expired, pc, todo, errs, histVars>>
       ELSE /\ state' = "Stopping"
            /\ expired' = FALSE
            /\ \E plan \in StopPlans :
                 IF plan.err # "nil"
                 THEN /\ todo' = << >>
                      /\ errs' = <<Err(plan.err, "nil")>>
                 ELSE /\ todo' = plan.groups
                      /\ errs' = << >>
            /\ pc' = [pc EXCEPT ![t] = "stopLoop"]
            /\ stopOrder' = << >>
            /\ stopDone' = [k \in Keys |-> 0]
            /\ startDone' = [k \in Keys |-> 0]
            /\ stopFailed' = [k \in Keys |-> 0]
            /\ ret' = NoRet
            /\ UNCHANGED <<startOrder, lazyDone>>
    /\ UNCHANGED <<services, resolving, key, idx, herr, spawned, errCh, stack, rres, provCalls, scopeCalls>>
    /\ UNCHANGED cfgVars

\* The context of the running Stop is cancelled or its deadline passes.
Expire ==
    /\ resolved' = NoEvent
    /\ UNCHANGED requests
    /\ state = "Stopping"
    /\ ~expired
    /\ expired' = TRUE
    /\ ret' = NoRet
    /\ UNCHANGED <<services, state, resolving, pc, key, idx, herr, todo, errs, spawned, errCh, stack, rres, provCalls, scopeCalls>>
    /\ UNCHANGED <<cfgVars, histVars>>

\* The loop of stopSequential / stopParallel and the head of stopGroup;
\* Stop, lines 462-469, when the loop has ended.
StopLoop(t) ==
    /\ resolved' = NoEvent
    /\ UNCHANGED requests
    /\ pc[t] = "stopLoop"
    /\ IF todo = << >>
       THEN /\ state' = stateAfterStop(errs)
            /\ ret' = Ret(t, "Stop", "nil", IF Len(errs) > 0 THEN "ShutdownErrors" ELSE "nil", NoInst)
            /\ pc' = [pc EXCEPT ![t] = "idle"]
            /\ errs' = << >>
            /\ expired' = FALSE
            /\ stopFailed' = [k \in Keys |-> 0]
            /\ UNCHANGED <<todo, key, spawned>>
       ELSE IF ctxErr(expired)
            THEN /\ errs' = Append(errs, Err("ShutdownTimeout", "nil"))
                 /\ todo' = << >>
                 /\ ret' = NoRet
                 /\ UNCHANGED <<state, pc, key, spawned, expired, stopFailed>>
            ELSE LET keys == Head(todo) IN
                 /\ todo' = Tail(todo)
                 /\ IF Cardinality(keys) = 1
                    THEN /\ key' = [key EXCEPT ![t] = CHOOSE k \in keys : TRUE]
                         /\ pc' = [pc EXCEPT ![t] = "stopSvc"]
                         /\ UNCHANGED spawned
                    ELSE LET go == {k \in keys : IsInstantiated(services, k)} IN
                         /\ spawned' = go
                         /\ pc' = [x \in Procs |-> IF x \in go THEN "stopSvc"
                                                   ELSE IF x = t THEN "stopJoin" ELSE pc[x]]
                         /\ UNCHANGED key
                 /\ ret' = NoRet
                 /\ UNCHANGED <<state, errs, expired, stopFailed>>
    /\ UNCHANGED <<services, resolving, idx, herr, errCh, stack, rres, provCalls, scopeCalls>>
    /\ UNCHANGED <<cfgVars, startOrder, stopOrder, startDone, stopDone, lazyDone>>

\* stopService of thread t returns e: appended to errs when it is not nil.
StopServiceReturn(t, e) ==
    /\ pc' = [pc EXCEPT ![t] = IF t \in Callers THEN "stopLoop" ELSE "done"]
    /\ key' = [key EXCEPT ![t] = IF t \in Callers THEN "nil" ELSE t]
    /\ idx' = [idx EXCEPT ![t] = 0]
    /\ herr' = [herr EXCEPT ![t] = NoErr]
    /\ errs' = IF e = NoErr THEN errs ELSE Append(errs, e)

\* stopGroup, line 540: wg.Wait.
StopJoin(t) ==
    /\ resolved' = NoEvent
    /\ UNCHANGED requests
    /\ pc[t] = "stopJoin"
    /\ \A k \in spawned : pc[k] = "done"
    /\ spawned' = {}
    /\ pc' = [x \in Procs |-> IF x \in spawned THEN "off"
                              ELSE IF x = t THEN "stopLoop" ELSE pc[x]]
    /\ ret' = NoRet
    /\ UNCHANGED <<services, state, resolving, expired, key, idx, herr, todo, errs, errCh, stack, rres, provCalls, scopeCalls>>
    /\ UNCHANGED <<cfgVars, histVars>>

\* stopService, lines 545-553: an entry that is not instantiated is skipped;
\* the last OnStop hook begins, or there is none.
stopService(t) ==
    /\ resolved' = NoEvent
    /\ UNCHANGED requests
    /\ pc[t] = "stopSvc"
    /\ IF ~IsInstantiated(services, key[t])
       THEN /\ StopServiceReturn(t, NoErr)
            /\ UNCHANGED stopOrder
       ELSE /\ stopOrder' = Append(stopOrder, key[t])
            /\ IF services[key[t]].OnStop = 0
               THEN StopServiceReturn(t, NoErr)
               ELSE /\ idx' = [idx EXCEPT ![t] = services[key[t]].OnStop]
                    /\ pc' = [pc EXCEPT ![t] = "stopHookRun"]
                    /\ UNCHANGED <<key, herr, errs>>
    /\ ret' = NoRet
    /\ UNCHANGED <<services, state, resolving, expired, todo, spawned, errCh, stack, rres, provCalls, scopeCalls, startOrder, startDone, stopDone, stopFailed, lazyDone>>
    /\ UNCHANGED cfgVars

\* stopService, lines 553-561: the running OnStop hook returns nil or an error
\* (which replaces stopErr); the hook before it begins, or stopErr is returned.
StopHookEnd(t) ==
    /\ resolved' = NoEvent
    /\ UNCHANGED requests
    /\ pc[t] = "stopHookRun"
    /\ stopDone' = [stopDone EXCEPT ![key[t]] = @ + 1]
    /\ \E failed \in BOOLEAN :
         LET e == IF failed THEN Err("HookFailed", key[t]) ELSE herr[t] IN
         /\ stopFailed' = [stopFailed EXCEPT ![key[t]] = IF failed THEN @ + 1 ELSE @]
         /\ IF stopHooksLeft(idx[t], e)
            THEN /\ idx' = [idx EXCEPT ![t] = @ - 1]
                 /\ herr' = [herr EXCEPT ![t] = e]
                 /\ UNCHANGED <<pc, key, errs>>
            ELSE StopServiceReturn(t, e)
    /\ ret' = NoRet
    /\ UNCHANGED <<services, state, resolving, expired, todo, spawned, errCh, stack, rres, provCalls, scopeCalls, startOrder, stopOrder, startDone, lazyDone>>
    /\ UNCHANGED cfgVars

\* ------------------------------------------------------------------ system

Next ==
    \/ \E t \in Callers : StartCall(t)
    \/ \E t \in Callers : StartLoop(t)
    \/ \E t \in Callers : StartJoin(t)
    \/ \E t \in Procs : startService(t)
    \/ \E t \in Procs : StartResolved(t)
    \/ \E t \in Procs : StartHookEnd(t)
    \/ \E t \in Procs : ResolveBody(t)
    \/ \E t \in Procs : ResolveDeps(t)
    \/ \E t \in Procs : ResolveFail(t)
    \/ \E t \in Callers : StopCall(t)
    \/ \E t \in Callers : StopLoop(t)
    \/ \E t \in Callers : StopJoin(t)
    \/ \E t \in Procs : stopService(t)
    \/ \E t \in Procs : StopHookEnd(t)
    \/ Expire

\* Start and Stop called by the callers, in any order and at any time.
Spec == Init /\ [][Next]_vars

\* A step of the running Stop, of its caller or of a goroutine of stopGroup.
StopStep ==
    \E t \in Procs : StopLoop(t) \/ StopJoin(t) \/ stopService(t) \/ StopHookEnd(t)

\* The registered configurations in which every later key depends on the first.
ForkDeps == [k \in Keys |-> IF Rank(k) = 1 THEN << >> ELSE <<KeyOrder[1]>>]

InitResolve ==
    /\ Init
    /\ \A k \in Keys : services[k].Dependencies = ForkDeps[k]
    /\ ~services[KeyOrder[2]].Lazy

\* The caller that starts the container; both callers resolve.
Starter == "u1"

NextResolve ==
    \/ StartCall(Starter)
    \/ \E t \in Callers : StartLoop(t)
    \/ \E t \in Callers : StartJoin(t)
    \/ \E t \in Procs : startService(t)
    \/ \E t \in Procs : StartResolved(t)
    \/ \E t \in Procs : StartHookEnd(t)
    \/ \E t \in Procs : ResolveBody(t)
    \/ \E t \in Procs : ResolveDeps(t)
    \/ \E t \in Procs : ResolveFail(t)
    \/ \E t \in Callers, k \in Keys : ResolveCall(t, k)
    \/ \E t \in Procs : LazyHookEnd(t)

NextLive ==
    \/ StartCall(Starter)
    \/ \E t \in Callers : StartLoop(t)
    \/ \E t \in Callers : StartJoin(t)
    \/ \E t \in Procs : startService(t)
    \/ \E t \in Procs : StartResolved(t)
    \/ \E t \in Procs : StartHookEnd(t)
    \/ \E t \in Procs : ResolveBody(t)
    \/ \E t \in Procs : ResolveDeps(t)
    \/ \E t \in Procs : ResolveFail(t)
    \/ StopCall(Starter)
    \/ \E t \in Callers : StopLoop(t)
    \/ \E t \in Callers : StopJoin(t)
    \/ \E t \in Procs : stopService(t)
    \/ \E t \in Procs : StopHookEnd(t)
    \/ Expire

\* Start and Stop called by one caller; the caller of Stop and the goroutines
\* it spawns keep being scheduled, and every OnStop hook returns.
SpecLive == Init /\ [][NextLive]_vars /\ WF_vars(StopStep)

\* The caller that resolves while the other starts and stops the container.
Resolver == "u2"

\* The lazy key of InitCycle.
LazyKey == KeyOrder[Len(KeyOrder)]

\* The registered configurations of InitResolve in which the last key, and no
\* other, is lazy.
InitCycle ==
    /\ InitResolve
    /\ \A k \in Keys : services[k].Lazy <=> k = LazyKey

NextCycle ==
    \/ StartCall(Starter)
    \/ \E t \in Callers : StartLoop(t)
    \/ \E t \in Callers : StartJoin(t)
    \/ \E t \in Procs : startService(t)
    \/ \E t \in Procs : StartResolved(t)
    \/ \E t \in Procs : StartHookEnd(t)
    \/ \E t \in Procs : ResolveBody(t)
    \/ \E t \in Procs : ResolveDeps(t)
    \/ \E t \in Procs : ResolveFail(t)
    \/ ResolveCall(Resolver, LazyKey)
    \/ \E t \in Procs : LazyHookEnd(t)
    \/ StopCall(Starter)
    \/ \E t \in Callers : StopLoop(t)
    \/ \E t \in Callers : StopJoin(t)
    \/ \E t \in Procs : stopService(t)
    \/ \E t \in Procs : StopHookEnd(t)
    \/ Expire

\* Start and Stop called by one caller and Resolve of the lazy key by the
\* other, in any order and at any time.
SpecCycle == InitCycle /\ [][NextCycle]_vars

\* Start called by one caller and Resolve by both, in any order and at any time.
SpecResolve == InitResolve /\ [][NextResolve]_vars

\* A container on which the first key has been provided and the second has
\* been provided with the first as its dependency.
InitReplace ==
    /\ \E p \in Providers :
         services = RegisterUnsafe(RegisterUnsafe(EmptyMap, KeyOrder[1], p, << >>),
                                   KeyOrder[2], p, <<KeyOrder[1]>>)
    /\ graph = [AddNodeUnsafe(AddNodeUnsafe(NewGraph, KeyOrder[1], << >>),
                              KeyOrder[2], <<KeyOrder[1]>>) EXCEPT !.cycleValid = TRUE]
    /\ \E n \in 0..1 : decorators = [k \in Keys |-> n]
    /\ parallel = FALSE
    /\ observers = 0
    /\ Fresh

\* The keys that are replaced.
ReplacedKeys == {KeyOrder[1], KeyOrder[2]}

\* The dependency lists given to Replace: none, or one of the replaced keys.
ReplaceDeps == {<< >>} \cup {<<k>> : k \in ReplacedKeys}

NextReplace ==
    \/ \E k \in Keys : ResolveCall(Resolver, k)
    \/ ResolveBody(Resolver)
    \/ ResolveDeps(Resolver)
    \/ ResolveFail(Resolver)
    \/ \E k \in ReplacedKeys, d \in ReplaceDeps : Replace(k, ReplacementProvider, d)
    \/ \E k \in ReplacedKeys, v \in Values : ReplaceValue(k, v)

\* Resolve called by one caller while Replace and ReplaceValue are called by
\* another, in any order and at any time.
SpecReplace == InitReplace /\ [][NextReplace]_vars

\* ----------------------------------------------------------------- modules

\* Container.Register as a function of the registry and the graph: the
\* registries and graphs it can leave, with the error it returns.
registerIn(svc, g, k, provider, dependencies) ==
    IF HasUnsafe(svc, k)
    THEN {[services |-> svc, graph |-> g, code |-> "DuplicateService"]}
    ELSE LET s1 == RegisterUnsafe(svc, k, provider, dependencies)
             g1 == AddNodeUnsafe(g, k, dependencies)
         IN {IF o.result
             THEN [services |-> RemoveUnsafe(s1, k),
                   graph |-> RemoveNodeUnsafe(o.graph, k), code |-> "CircularDependency"]
             ELSE [services |-> s1, graph |-> o.graph, code |-> "nil"] :
               o \in HasCycle(g1)}

\* The key after k in KeyOrder, the first after the last.
NextKey(k) == KeyOrder[(Rank(k) % Len(KeyOrder)) + 1]

\* The dependency lists of the provider of key k of a module: none, or the
\* next key.
ModuleDeps(k) == {<< >>, <<NextKey(k)>>}

\* The registrations a module holds: providers (Module.Provide) with their
\* key and dependencies, bindings (ModuleBind) of the last key as interface
\* key to another key.
ModuleEntries ==
    UNION {{[key |-> k, provider |-> p, deps |-> d] : p \in Providers, d \in ModuleDeps(k)} :
             k \in Keys}

BindingEntries ==
    LET i == KeyOrder[Len(KeyOrder)] IN
    {[key |-> i, provider |-> BindProvider, deps |-> <<k>>] : k \in Keys \ {i}}

\* The modules: no, one or two providers, no or one binding, and no
\* decorator or one.
Modules ==
    [providers : {<< >>} \cup {<<x>> : x \in ModuleEntries}
                         \cup {<<x, y>> : x \in ModuleEntries, y \in ModuleEntries},
     bindings : {<< >>} \cup {<<x>> : x \in BindingEntries},
     decorators : {<< >>} \cup {<<k>> : k \in Keys}]

RECURSIVE applyEntries(_, _, _, _)

\* Module.apply, the loops over m.providers and m.bindings from entry i on:
\* the first registration that returns an error ends the loops.
applyEntries(svc, g, entries, i) ==
    IF i > Len(entries)
    THEN {[services |-> svc, graph |-> g, code |-> "nil"]}
    ELSE UNION {IF r.code # "nil"
                THEN {r}
                ELSE applyEntries(r.services, r.graph, entries, i + 1) :
                  r \in registerIn(svc, g, entries[i].key, entries[i].provider,
                                   entries[i].deps)}

RECURSIVE AddDecorators(_, _, _)

\* Module.apply, the loop over m.decorators: AddDecorator for each.
AddDecorators(decs, keys, i) ==
    IF i > Len(keys)
    THEN decs
    ELSE AddDecorators([decs EXCEPT ![keys[i]] = @ + 1], keys, i + 1)

\* Module.apply: providers, then bindings, then decorators; an error returns
\* at once.
apply(svc, g, decs, m) ==
    {IF r.code # "nil"
     THEN [services |-> r.services, graph |-> r.graph, decorators |-> decs, code |-> r.code]
     ELSE [services |-> r.services, graph |-> r.graph,
           decorators |-> AddDecorators(decs, m.decorators, 1), code |-> "nil"] :
       r \in applyEntries(svc, g, m.providers \o m.bindings, 1)}

\* Container.Apply with one module whose keys to decorate have no decorator.
Apply(m) ==
    /\ \A i \in DOMAIN m.decorators : decorators[m.decorators[i]] = 0
    /\ \E r \in apply(services, graph, decorators, m) :
         /\ services' = r.services
         /\ graph' = r.graph
         /\ decorators' = r.decorators
         /\ regRet' = [op |-> "Apply", key |-> "nil",
                       code |-> IF r.code = "nil" THEN "nil" ELSE "ModuleApplyFailed"]
    /\ UNCHANGED <<state, parallel, resolving, expired, pc, key, idx, herr, todo, errs,
                   spawned, errCh, stack, rres, ret, provCalls, scopeCalls, startOrder,
                   stopOrder, startDone, stopDone, stopFailed, lazyDone, observers,
                   resolved, requests, reports, graphRet, locking>>

NextModule == \E m \in Modules : Apply(m)

\* Apply called with one module after another on a new container.
SpecModule == InitReg /\ [][NextModule]_vars

\* ------------------------------------------------------------- graph calls

Min(x, y) == IF x <= y THEN x ELSE y

\* DetectCycles: the CycleDetector it starts with.
NewDetector ==
    [index |-> 0, stack |-> << >>, onStack |-> {}, indices |-> EmptyMap,
     lowlink |-> EmptyMap, sccs |-> << >>]

\* strongConnect, lines 72-84: the stack is popped down to id and the popped
\* nodes are appended as one component.
PopComponent(d, id) ==
    LET pos == CHOOSE j \in DOMAIN d.stack : d.stack[j] = id
        scc == Reverse(SubSeq(d.stack, pos, Len(d.stack)))
    IN [d EXCEPT !.stack = SubSeq(d.stack, 1, pos - 1),
                 !.onStack = d.onStack \ Range(scc),
                 !.sccs = Append(d.sccs, scc)]

RECURSIVE strongConnect(_, _, _)
RECURSIVE strongConnectDeps(_, _, _, _)

\* strongConnect, lines 58-70: the loop over the dependencies of id from the
\* i-th on.
strongConnectDeps(g, d, id, i) ==
    LET deps == EdgesOf(g, id) IN
    IF i > Len(deps) THEN d
    ELSE LET dep == deps[i] IN
         IF dep \notin g.nodes THEN strongConnectDeps(g, d, id, i + 1)
         ELSE IF dep \notin DOMAIN d.indices
              THEN LET r == strongConnect(g, d, dep) IN
                   strongConnectDeps(g, [r EXCEPT !.lowlink[id] =
                                            Min(r.lowlink[id], r.lowlink[dep])], id, i + 1)
              ELSE IF dep \in d.onStack
                   THEN strongConnectDeps(g, [d EXCEPT !.lowlink[id] =
                                                 Min(d.lowlink[id], d.indices[dep])], id, i + 1)
                   ELSE strongConnectDeps(g, d, id, i + 1)

\* CycleDetector.strongConnect
strongConnect(g, d, id) ==
    LET d1 == [d EXCEPT !.indices = MapPut(d.indices, id, d.index),
                        !.lowlink = MapPut(d.lowlink, id, d.index),
                        !.index = d.index + 1,
                        !.stack = Append(d.stack, id),
                        !.onStack = d.onStack \cup {id}]
        d2 == strongConnectDeps(g, d1, id, 1)
    IN IF d2.lowlink[id] = d2.indices[id] THEN PopComponent(d2, id) ELSE d2

RECURSIVE detectLoop(_, _, _, _)

\* DetectCycles, lines 27-31: the loop over g.nodes, which yields ord.
detectLoop(g, d, ord, i) ==
    IF i > Len(ord) THEN d
    ELSE IF ord[i] \in DOMAIN d.indices
         THEN detectLoop(g, d, ord, i + 1)
         ELSE detectLoop(g, strongConnect(g, d, ord[i]), ord, i + 1)

\* DetectCycles: the components of more than one node and the single nodes
\* that list themselves as a dependency.
DetectCycles(g, ord) ==
    SelectSeq(detectLoop(g, NewDetector, ord, 1).sccs,
              LAMBDA scc : Len(scc) > 1 \/ (Len(scc) = 1 /\ scc[1] \in Range(EdgesOf(g, scc[1]))))

\* The dependency lists given to AddNode: of none, one or two keys, which may
\* be the node itself or the same key twice.
GraphDeps == {<< >>} \cup {<<x>> : x \in Keys} \cup {<<x, y>> : x \in Keys, y \in Keys}

\* What a call made on the graph alone returned.
GraphRet(op, result, order, err, cycles) ==
    [op |-> op, result |-> result, order |-> order, err |-> err, cycles |-> cycles]

\* Every variable but the graph and graphRet.
allButGraph == <<services, decorators, state, parallel, resolving, expired, pc, key, idx,
                 herr, todo, errs, spawned, errCh, stack, rres, ret, regRet, provCalls,
                 scopeCalls, startOrder, stopOrder, startDone, stopDone, stopFailed,
                 lazyDone, observers, resolved, requests, reports, locking>>

\* Every variable but the graph, graphRet and locking.
allButLocking == <<services, decorators, state, parallel, resolving, expired, pc, key, idx,
                   herr, todo, errs, spawned, errCh, stack, rres, ret, regRet, provCalls,
                   scopeCalls, startOrder, stopOrder, startDone, stopDone, stopFailed,
                   lazyDone, observers, resolved, requests, reports>>

\* Graph.AddNode
GraphAddNode(id, dependencies) ==
    /\ graph' = AddNode(graph, id, dependencies)
    /\ graphRet' = GraphRet("AddNode", FALSE, << >>, "nil", << >>)
    /\ UNCHANGED allButGraph

\* Graph.RemoveNode
GraphRemoveNode(id) ==
    /\ graph' = RemoveNode(graph, id)
    /\ graphRet' = GraphRet("RemoveNode", FALSE, << >>, "nil", << >>)
    /\ UNCHANGED allButGraph

\* Graph.HasCycle
GraphHasCycle ==
    /\ \E o \in HasCycle(graph) :
         /\ graph' = o.graph
         /\ graphRet' = GraphRet("HasCycle", o.result, << >>, "nil", << >>)
    /\ UNCHANGED allButGraph

\* Graph.DetectCycles
GraphDetectCycles ==
    /\ \E ord \in Perms(graph.nodes) :
         graphRet' = GraphRet("DetectCycles", FALSE, << >>, "nil", DetectCycles(graph, ord))
    /\ UNCHANGED graph
    /\ UNCHANGED allButGraph

\* Graph.TopologicalSort
GraphTopologicalSort ==
    /\ \E r \in StartupOrder(graph) :
         graphRet' = GraphRet("TopologicalSort", FALSE, r.order, r.err, << >>)
    /\ UNCHANGED graph
    /\ UNCHANGED allButGraph

NextGraph ==
    \/ \E id \in Keys, d \in GraphDeps : GraphAddNode(id, d)
    \/ \E id \in Keys : GraphRemoveNode(id)
    \/ GraphHasCycle
    \/ GraphDetectCycles
    \/ GraphTopologicalSort

\* Calls made on a new graph, in any order.
SpecGraph == InitReg /\ [][NextGraph]_vars

\* ------------------------------------------------- Replace between Start and Stop

\* Two services with OnStart and OnStop hooks, the second depending on the first.
InitSwap ==
    /\ services = [k \in ReplacedKeys |->
                     ConfiguredEntry(k, IF k = KeyOrder[1] THEN << >> ELSE <<KeyOrder[1]>>, FALSE)]
    /\ graph = [AddNodeUnsafe(AddNodeUnsafe(NewGraph, KeyOrder[1], << >>),
                              KeyOrder[2], <<KeyOrder[1]>>) EXCEPT !.cycleValid = TRUE]
    /\ decorators = [k \in Keys |-> 0]
    /\ parallel = FALSE
    /\ observers = 0
    /\ Fresh

NextSwap ==
    \/ StartCall(Starter)
    \/ StartLoop(Starter)
    \/ startService(Starter)
    \/ StartResolved(Starter)
    \/ StartHookEnd(Starter)
    \/ ResolveBody(Starter)
    \/ ResolveDeps(Starter)
    \/ ResolveFail(Starter)
    \/ StopCall(Starter)
    \/ StopLoop(Starter)
    \/ stopService(Starter)
    \/ StopHookEnd(Starter)
    \/ \E k \in ReplacedKeys, d \in ReplaceDeps : Replace(k, ReplacementProvider, d)
    \/ \E k \in ReplacedKeys, v \in Values : ReplaceValue(k, v)

\* One caller starts and stops the container, in sequential mode, while
\* Replace and ReplaceValue are called at any time.
SpecSwap == InitSwap /\ [][NextSwap]_vars

\* ---------------------------------------------------------------- mutexes

\* One step of a call: a mutex operation, a user callback that runs, or a
\* call of Resolve that the container makes itself.
Step(do, on) == [do |-> do, on |-> on]

\* Graph.HasCycle with the cached answer invalid.
HasCycleSteps ==
    <<Step("RLock", "graph"), Step("RUnlock", "graph"),
      Step("Lock", "graph"), Step("Unlock", "graph")>>

\* Register that unlocks c.mu when it returns.
RegisterStepsDeferred ==
    <<Step("Lock", "mu")>> \o HasCycleSteps
        \o <<Step("run", "observer"), Step("Unlock", "mu")>>

\* Container.Register: RegisterUnsafe and AddNodeUnsafe take no mutex.
RegisterSteps ==
    <<Step("Lock", "mu")>> \o HasCycleSteps
        \o <<Step("Unlock", "mu"), Step("run", "observer")>>

\* Container.Replace: Remove, RemoveNode, Register, AddNode and HasCycle under c.mu.
ReplaceSteps ==
    <<Step("Lock", "mu"),
      Step("Lock", "registry"), Step("Unlock", "registry"),
      Step("Lock", "graph"), Step("Unlock", "graph"),
      Step("Lock", "registry"), Step("Unlock", "registry"),
      Step("Lock", "graph"), Step("Unlock", "graph")>>
        \o HasCycleSteps \o <<Step("Unlock", "mu")>>

\* Container.Resolve of a lazy singleton that is not instantiated, in a
\* running container: the longest path through Resolve.
ResolveSteps ==
    <<Step("Lock", "resolving"), Step("Unlock", "resolving"),
      Step("RLock", "mu"), Step("RLock", "registry"),
      Step("RUnlock", "registry"), Step("RUnlock", "mu"),
      Step("run", "provider"),
      Step("RLock", "decorators"), Step("RUnlock", "decorators"),
      Step("run", "decorator"),
      Step("Lock", "registry"), Step("Unlock", "registry"),
      Step("run", "hook"),
      Step("Lock", "registry"), Step("Unlock", "registry"),
      Step("run", "observer"), Step("run", "observer"),
      Step("Lock", "resolving"), Step("Unlock", "resolving")>>

\* Container.Start of one service: the state is set under c.mu, the order is
\* read from the graph, startService resolves the key and runs its hooks.
StartSteps ==
    <<Step("Lock", "mu"), Step("Unlock", "mu"),
      Step("RLock", "graph"), Step("RUnlock", "graph"),
      Step("call", "Resolve"),
      Step("RLock", "registry"), Step("RUnlock", "registry"),
      Step("run", "hook"),
      Step("Lock", "registry"), Step("Unlock", "registry"),
      Step("run", "observer"),
      Step("Lock", "mu"), Step("Unlock", "mu")>>

LockOps == {"Register", "Replace", "Resolve", "Start"}

StepsOf(op) ==
    CASE op = "Register" -> RegisterSteps
      [] op = "Replace" -> ReplaceSteps
      [] op = "Resolve" -> ResolveSteps
      [] op = "Start" -> StartSteps

\* The call goroutine t is in, innermost first, and the step it is at.
TopCall(t) == locking.at[t][1]
InCall(t) == locking.at[t] # << >>
Returning(t) == InCall(t) /\ TopCall(t).at > Len(StepsOf(TopCall(t).op))
AtStep(t) == StepsOf(TopCall(t).op)[TopCall(t).at]
Running(t) == InCall(t) /\ ~Returning(t) /\ AtStep(t).do = "run"

\* The mutexes goroutine t holds, for writing or for reading.
HeldBy(t) == {l \in Mutexes : locking.held[l].w = t \/ locking.held[l].r[t] > 0}

\* sync.RWMutex: Lock waits for the writer and all readers, RLock for the writer.
CanLock(l) ==
    locking.held[l].w = "none" /\ \A t \in Goroutines : locking.held[l].r[t] = 0
CanRLock(l) == locking.held[l].w = "none"

\* The goroutine's innermost call moves to its next step.
Advance(t) == [locking.at[t] EXCEPT ![1].at = @ + 1]

\* A callback of goroutine t is running a call that it made itself.
InCallback(t) == \E i \in DOMAIN locking.at[t] : locking.at[t][i].cb

\* A user calls op on goroutine t.
LockCall(t, op) ==
    /\ ~InCall(t)
    /\ locking' = [locking EXCEPT !.at[t] = <<[op |-> op, at |-> 1, cb |-> FALSE]>>]
    /\ UNCHANGED <<graph, graphRet, allButLocking>>

\* Goroutine t takes the step it is at: a mutex operation, which may have to
\* wait, the return of a callback, or the container's own call of Resolve.
LockStep(t) ==
    /\ InCall(t) /\ ~Returning(t)
    /\ LET st == AtStep(t) IN
       CASE st.do = "Lock" ->
              /\ CanLock(st.on)
              /\ locking' = [locking EXCEPT !.held[st.on].w = t, !.at[t] = Advance(t)]
         [] st.do = "Unlock" ->
              locking' = [locking EXCEPT !.held[st.on].w = "none", !.at[t] = Advance(t)]
         [] st.do = "RLock" ->
              /\ CanRLock(st.on)
              /\ locking' = [locking EXCEPT !.held[st.on].r[t] = @ + 1, !.at[t] = Advance(t)]
         [] st.do = "RUnlock" ->
              locking' = [locking EXCEPT !.held[st.on].r[t] = @ - 1, !.at[t] = Advance(t)]
         [] st.do = "run" ->
              locking' = [locking EXCEPT !.at[t] = Advance(t)]
         [] st.do = "call" ->
              locking' = [locking EXCEPT !.at[t] =
                             <<[op |-> st.on, at |-> 1, cb |-> FALSE]>> \o @]
    /\ UNCHANGED <<graph, graphRet, allButLocking>>

\* The callback that goroutine t is running calls op on the container. The
\* callbacks of that call make no calls of their own.
CallbackCalls(t, op) ==
    /\ Running(t) /\ ~InCallback(t)
    /\ locking' = [locking EXCEPT !.at[t] = <<[op |-> op, at |-> 1, cb |-> TRUE]>> \o @]
    /\ UNCHANGED <<graph, graphRet, allButLocking>>

\* The innermost call of goroutine t returns to the callback or the call that made it.
LockReturn(t) ==
    /\ Returning(t)
    /\ locking' = [locking EXCEPT !.at[t] =
                      IF Len(@) > 1 /\ ~@[1].cb
                      THEN [Tail(@) EXCEPT ![1].at = @ + 1]
                      ELSE Tail(@)]
    /\ UNCHANGED <<graph, graphRet, allButLocking>>

NextLock ==
    \/ \E t \in Goroutines, op \in LockOps : LockCall(t, op)
    \/ \E t \in Goroutines : LockStep(t)
    \/ \E t \in Goroutines, op \in LockOps \ {"Start"} : CallbackCalls(t, op)
    \/ \E t \in Goroutines : LockReturn(t)

\* Two goroutines call Register, Replace, Resolve and Start, and so do the
\* callbacks these calls run.
SpecLock == InitReg /\ [][NextLock]_vars

\* ------------------------------------------------------------------ health

\* The keys of the types that implement HealthChecker.
CheckerKeys == {KeyOrder[1], KeyOrder[2]}

\* GetInstance that finds an instance in every entry.
GetInstanceOfAny(svc, k) == k \in DOMAIN svc

\* Registry.GetInstance, its second result: the entry exists and is
\* instantiated.
GetInstance(svc, k) == k \in DOMAIN svc /\ svc[k].Instantiated

\* checkHealth: the keys whose instance is probed, those of Keys() for which
\* GetInstance and the type assertion succeed.
Probed == {k \in DOMAIN services : GetInstance(services, k) /\ k \in CheckerKeys}

\* checkHealth: the lists it can return when the HealthCheck of the instances
\* of down return an error; each goroutine appends its report when it is done.
HealthReports(down) ==
    {[i \in DOMAIN o |-> [Name |-> o[i],
                          Status |-> IF o[i] \in down THEN "down" ELSE "up"]] :
       o \in Perms(Probed)}

\* The first report of rs that is Down, 0 if there is none.
FirstDown(rs) ==
    IF \E i \in DOMAIN rs : rs[i].Status = "down"
    THEN CHOOSE i \in DOMAIN rs :
           rs[i].Status = "down" /\ \A j \in 1..(i - 1) : rs[j].Status # "down"
    ELSE 0

\* Container.Live
Live(t) ==
    /\ t \in Callers
    /\ pc[t] = "idle"
    /\ \E down \in SUBSET Probed : \E rs \in HealthReports(down) :
         /\ reports' = rs
         /\ ret' = IF FirstDown(rs) = 0
                   THEN Ret(t, "Live", "nil", "nil", NoInst)
                   ELSE Ret(t, "Live", rs[FirstDown(rs)].Name, "HealthCheckFailed", NoInst)
    /\ resolved' = NoEvent
    /\ UNCHANGED <<services, requests, state, resolving, expired, pc, key, idx, herr, todo,
                   errs, spawned, errCh, stack, rres, provCalls, scopeCalls>>
    /\ UNCHANGED <<graph, decorators, parallel, regRet, observers, graphRet, locking, histVars>>

\* Container.Health
Health(t) ==
    /\ t \in Callers
    /\ pc[t] = "idle"
    /\ \E down \in SUBSET Probed : \E rs \in HealthReports(down) :
         /\ reports' = rs
         /\ ret' = Ret(t, "Health", "nil", "nil", NoInst)
    /\ resolved' = NoEvent
    /\ UNCHANGED <<services, requests, state, resolving, expired, pc, key, idx, herr, todo,
                   errs, spawned, errCh, stack, rres, provCalls, scopeCalls>>
    /\ UNCHANGED <<graph, decorators, parallel, regRet, observers, graphRet, locking, histVars>>

NextHealth ==
    \/ \E k \in Keys, p \in Providers : Register(k, p, << >>)
    \/ \E k \in Keys, v \in Values : RegisterValue(k, v)
    \/ \E k \in Keys : ResolveCall(Resolver, k)
    \/ ResolveBody(Resolver)
    \/ Live(Resolver)
    \/ Health(Resolver)

\* Providers and values registered on a new container, resolved and probed
\* by one caller, in any order.
SpecHealth == InitReg /\ [][NextHealth]_vars

Scopes == {"Singleton", "Transient", "Request", "Pooled"}

\* The pool sizes given to a pooled entry.
PoolSizes == 0..2

\* The resolve observers given to New.
Observers == {"o1", "o2"}

\* The entry of key k after Provide with a scope and a pool size.
ScopedEntry(k, provider, dependencies, scp, size) ==
    LET svc0 == RegisterUnsafe(EmptyMap, k, provider, dependencies)
    IN SetPoolSize(SetScope(svc0, k, scp), k, size)[k]

\* A container with resolve observers on which the first key has been provided
\* with a scope and the second has been bound to it or provided with it as
\* its dependency; when the provider of the second resolves a key the third
\* key has such a provider too, and otherwise it is not registered. The first
\* two keys are decorated or none is.
InitScope ==
    /\ \E scp \in Scopes, size \in PoolSizes,
          second \in Providers \cup {BindProvider, ResolvingProvider} :
         LET a == KeyOrder[1]
             b == KeyOrder[2]
             c == KeyOrder[3]
             third == second = ResolvingProvider
             two == (a :> ScopedEntry(a, CHOOSE p \in Providers : TRUE, << >>, scp, size))
                    @@ (b :> ProviderEntry(b, second, <<a>>))
             g2 == AddNodeUnsafe(AddNodeUnsafe(NewGraph, a, << >>), b, <<a>>)
         IN /\ size > 0 => scp = "Pooled"
            /\ services = IF third
                          THEN two @@ (c :> ProviderEntry(c, ResolvingProvider, << >>))
                          ELSE two
            /\ graph = [(IF third THEN AddNodeUnsafe(g2, c, << >>) ELSE g2)
                          EXCEPT !.cycleValid = TRUE]
    /\ \E n \in 0..1 : decorators = [k \in Keys |-> IF k = KeyOrder[3] THEN 0 ELSE n]
    /\ parallel = FALSE
    /\ observers = Cardinality(Observers)
    /\ Fresh

\* The contexts the caller resolves with: one with a request scope only on a
\* container that has a request-scoped entry.
CallCtxs ==
    IF \E k \in DOMAIN services : services[k].Scope = "Request"
    THEN RequestCtxs \cup {NoScope}
    ELSE {NoScope}

NextScope ==
    \/ \E k \in Keys, ctx \in CallCtxs : ResolveCallIn(Resolver, k, ctx)
    \/ ResolveBody(Resolver)
    \/ ResolveDeps(Resolver)
    \/ ResolveFail(Resolver)
    \/ ProviderEnd(Resolver)
    \/ \E k \in Keys, n \in 1..MaxProvCalls : Release(Resolver, k, n)

\* Resolve and Release called by one caller, with and without a request scope,
\* in any order, on a container that is not started.
SpecScope == InitScope /\ [][NextScope]_vars

\* ------------------------------------------------- registration properties

Succ(g, n) == Range(EdgesOf(g, n))

RECURSIVE Closure(_, _)

\* The keys reachable from the set S along the adjacency lists.
Closure(g, S) ==
    LET T == S \cup UNION {Succ(g, n) : n \in S} IN
    IF T = S THEN S ELSE Closure(g, T)

\* n lies on a cycle (a self-loop included).
OnCycle(g, n) == n \in Closure(g, Succ(g, n))

\* Adding node k with adjacency d to g closes a cycle.
ClosesCycle(g, k, d) ==
    LET g1 == [g EXCEPT !.nodes = g.nodes \cup {k}, !.edges = MapPut(g.edges, k, d)]
    IN \E n \in g1.nodes : OnCycle(g1, n)

\* C6: after any sequence of Register, RegisterValue, Replace and ReplaceValue
\* calls, accepted or rejected, no key of the dependency graph lies on a cycle
\* and no key has a self-loop.
C6_GraphAcyclic == \A n \in Keys : ~OnCycle(graph, n)

\* C6 witness: a cycle-closing call was rejected while the graph holds an edge
\* between two existing nodes.
C6_Witness ==
    /\ regRet.code = "CircularDependency"
    /\ \E n \in graph.nodes : \E m \in Succ(graph, n) : m \in graph.nodes /\ m # n

\* C7: a Register call of an unregistered key whose dependencies close a cycle
\* returns CircularDependency and leaves the registry, the graph's nodes and
\* the graph's adjacency exactly as they were (the key is in neither).
C7_RegisterRollback ==
    [][\A k \in Keys, p \in Providers, d \in DepSeqs :
         (/\ regRet'.op = "Register"
          /\ regRet'.key = k
          /\ ~HasUnsafe(services, k)
          /\ ClosesCycle(graph, k, d)
          /\ Register(k, p, d))
         => /\ regRet'.code = "CircularDependency"
            /\ services' = services
            /\ graph'.nodes = graph.nodes
            /\ graph'.edges = graph.edges
            /\ k \notin DOMAIN services'
            /\ k \notin graph'.nodes]_vars

\* C7 witness: Register of a key was refused for a cycle through another,
\* registered key; the refused key is in neither the registry nor the graph.
C7_Witness ==
    /\ regRet.op = "Register"
    /\ regRet.code = "CircularDependency"
    /\ regRet.key \notin DOMAIN services
    /\ regRet.key \notin graph.nodes
    /\ DOMAIN services # {}

\* C8: after any sequence of Register, RegisterValue, Replace and ReplaceValue
\* calls the keys of the registry are exactly the nodes of the graph.
C8_RegistryMatchesGraph ==
    /\ DOMAIN services = graph.nodes
    /\ DOMAIN graph.edges = graph.nodes

\* C8 witness: a Replace was refused for a cycle and removed its key, other
\* keys remaining registered.
C8_Witness ==
    /\ regRet.op = "Replace"
    /\ regRet.code = "CircularDependency"
    /\ graph.nodes # {}
    /\ regRet.key \notin graph.nodes

\* --------------------------------------------------- lifecycle properties

StartBody == {"startLoop", "startJoin", "startSvc", "startResolve", "startResolved", "startHookRun"}

StopBody == {"stopLoop", "stopJoin", "stopSvc", "stopHookRun"}

\* In this step thread t begins an OnStart hook of the service it is starting.
StartHookBegins(t) == pc'[t] = "startHookRun" /\ (pc[t] # "startHookRun" \/ idx'[t] # idx[t])

\* In this step thread t begins an OnStop hook of the service it is stopping.
StopHookBegins(t) == pc'[t] = "stopHookRun" /\ (pc[t] # "stopHookRun" \/ idx'[t] # idx[t])

\* The registered keys that k declares as dependencies.
DepsOf(k) == Range(services[k].Dependencies) \cap DOMAIN services

\* Every variable but ret and resolved.
allButRet == <<services, graph, decorators, state, parallel, resolving, expired, pc, key, idx,
               herr, todo, errs, spawned, errCh, stack, rres, regRet, provCalls, scopeCalls, startOrder,
               stopOrder, startDone, stopDone, stopFailed, lazyDone, observers, requests,
               reports, graphRet, locking>>

\* C1 as stated: during Start, in either mode, when an OnStart hook of A begins,
\* every OnStart hook of every dependency B of A has completed.
C1_DepsStartedFirst ==
    [][\A t \in Procs : StartHookBegins(t) =>
         \A B \in DepsOf(key'[t]) : startDone[B] = services[B].OnStart]_vars

\* C1 amended: during Start, in either mode, when an OnStart hook of A begins,
\* every OnStart hook of every dependency B of A that is not lazy has
\* completed; Start runs no OnStart hook of a lazy service.
C1_NonLazyDepsStartedFirst ==
    /\ [][\A t \in Procs : StartHookBegins(t) =>
            \A B \in DepsOf(key'[t]) :
               ~services[B].Lazy => startDone[B] = services[B].OnStart]_vars
    /\ [](\A k \in DOMAIN services : services[k].Lazy => startDone[k] = 0)

\* C1 witness: in parallel mode a goroutine of a group runs an OnStart hook of
\* a service whose dependency is not lazy and has completed its OnStart hooks.
C1_Witness ==
    /\ parallel
    /\ \E t \in Keys :
         /\ pc[t] = "startHookRun"
         /\ \E B \in DepsOf(t) :
              ~services[B].Lazy /\ services[B].OnStart > 0 /\ startDone[B] = services[B].OnStart

\* C2 as stated: during Stop, in either mode, when an OnStop hook of B begins,
\* every OnStop hook of every A that depends on B has completed.
C2_DependentsStoppedFirst ==
    [][\A t \in Procs : StopHookBegins(t) =>
         \A A \in DOMAIN services :
            key'[t] \in DepsOf(A) => stopDone[A] = services[A].OnStop]_vars

\* C2 amended: during Stop, in either mode, when an OnStop hook of B begins,
\* every OnStop hook of every instantiated A that depends on B has completed;
\* Stop runs no OnStop hook of a service that is not instantiated.
C2_InstantiatedDependentsStoppedFirst ==
    /\ [][\A t \in Procs : StopHookBegins(t) =>
            \A A \in DOMAIN services :
               (key'[t] \in DepsOf(A) /\ services[A].Instantiated)
                  => stopDone[A] = services[A].OnStop]_vars
    /\ [](\A k \in DOMAIN services : ~services[k].Instantiated => stopDone[k] = 0)

\* C2 witness: an OnStop hook of a service runs after all OnStop hooks of an
\* instantiated service that depends on it have completed.
C2_Witness ==
    \E t \in Procs :
      /\ pc[t] = "stopHookRun"
      /\ \E A \in DOMAIN services :
           /\ key[t] \in DepsOf(A)
           /\ services[A].Instantiated
           /\ services[A].OnStop > 0
           /\ stopDone[A] = services[A].OnStop

\* C3: when a sequential Stop that followed a Start returns nil and has stopped
\* as many services as the Start started, none of them lazy, the services
\* were stopped in exactly the reverse of the order in which they were started.
C3_StopReversesStart ==
    (/\ state = "Stopped"
     /\ ret.op = "Stop"
     /\ ret.code = "nil"
     /\ ~parallel
     /\ \A k \in DOMAIN services : ~services[k].Lazy
     /\ Len(stopOrder) = Len(startOrder))
    => stopOrder = Reverse(startOrder)

StateSteps ==
    {<<"New", "Starting">>, <<"Starting", "Running">>, <<"Running", "Stopping">>,
     <<"Stopping", "Stopped">>, <<"Stopped", "Starting">>}

\* C4: under any interleaving of Start and Stop calls the container state
\* changes only by New->Starting, Starting->Running, Running->Stopping,
\* Stopping->Stopped and Stopped->Starting.
C4_StateSteps == [][state' # state => <<state, state'>> \in StateSteps]_vars

\* C4 witness: a stopped container is starting again (a service started by the
\* earlier Start has not yet been reached by this one).
C4_Witness ==
    /\ state = "Starting"
    /\ \E k \in DOMAIN services : services[k].StartRan /\ k \notin Range(startOrder)

\* C9: a Start call made in state Starting or Running returns AlreadyStarted
\* and changes nothing else (no provider, no hook, no state change), and at
\* most one caller is inside the startup sequence at any time.
C9_StartRefused ==
    /\ [][\A t \in Callers :
            ((state = "Starting" \/ state = "Running") /\ StartCall(t))
            => /\ ret' = Ret(t, "Start", "nil", "AlreadyStarted", NoInst)
               /\ UNCHANGED allButRet]_vars
    /\ [](Cardinality({t \in Callers : pc[t] \in StartBody}) <= 1)

\* C9 witness: a caller was refused while another caller is inside the startup
\* sequence.
C9_Witness ==
    /\ ret.op = "Start"
    /\ ret.code = "AlreadyStarted"
    /\ state = "Starting"
    /\ \E t \in Callers : t # ret.by /\ pc[t] \in StartBody

\* C10: a Stop call made in a state other than Running returns nil and changes
\* nothing else (no OnStop hook, no state change).
C10_StopNoop ==
    [][\A t \in Callers :
         (state # "Running" /\ StopCall(t))
         => /\ ret' = Ret(t, "Stop", "nil", "nil", NoInst)
            /\ UNCHANGED allButRet]_vars

\* C10 witness: a Stop call returned nil while another caller is inside the
\* shutdown sequence.
C10_Witness ==
    /\ ret.op = "Stop"
    /\ ret.code = "nil"
    /\ state = "Stopping"
    /\ \E t \in Callers : t # ret.by /\ pc[t] \in StopBody

\* ---------------------------------------------------- resolve properties

\* C5 as stated: the provider of a Singleton entry is invoked at most once.
C5_ProviderAtMostOnce == \A k \in DOMAIN services : provCalls[k] <= 1

\* C5 amended: once an instance of a Singleton entry is stored, its provider
\* is never invoked again and the stored instance never changes, and every
\* successful Resolve of the key returns the stored instance; an invocation
\* that failed stores nothing and may be followed by another.
C5_CachedProviderOnce ==
    [][/\ \A k \in DOMAIN services :
            services[k].Instantiated
            => /\ provCalls'[k] = provCalls[k]
               /\ services'[k].Instantiated
               /\ services'[k].Instance = services[k].Instance
       /\ (ret'.op = "Resolve" /\ ret'.code = "nil")
            => /\ services'[ret'.key].Instantiated
               /\ ret'.inst = services'[ret'.key].Instance]_vars

\* C5 witness: a Resolve returned the instance made by the second invocation
\* of a provider whose first invocation failed.
C5_Witness ==
    /\ ret.op = "Resolve"
    /\ ret.code = "nil"
    /\ ret.inst.n = 2
    /\ provCalls[ret.key] = 2

\* ------------------------------------------------ failure and deadline properties

\* The service that caller t is starting fails in this step: its Resolve has
\* returned an error, or an OnStart hook before the last one returns an error.
StartServiceFails(t) ==
    \/ pc[t] = "startResolved" /\ pc'[t] # "startResolved" /\ rres[t].err # NoErr
    \/ /\ pc[t] = "startHookRun"
       /\ pc'[t] # "startHookRun"
       /\ startDone'[key[t]] < services[key[t]].OnStart

\* No thread is inside Start, Stop or Resolve.
Quiet == \A t \in Procs : pc[t] \in {"idle", "off"}

StopReturns == ret'.op = "Stop" /\ pc[ret'.by] = "stopLoop"

\* The errors collected by the running Stop are all failures of OnStop hooks.
OnlyHookErrors == \A i \in DOMAIN errs : errs[i].code = "HookFailed"

\* The number of errors of the OnStop hooks of k collected by the running Stop.
HookErrorsOf(k) == Cardinality({i \in DOMAIN errs : errs[i] = Err("HookFailed", k)})

\* C12: when Stop returns without having recorded a timeout, every OnStop
\* hook of every instantiated service has been run, whatever hooks failed.
C12_AllStopHooksRun ==
    [][(StopReturns /\ OnlyHookErrors)
         => \A k \in Keys :
               services[k].Instantiated => stopDone[k] = services[k].OnStop]_vars

\* C12 witness: the hook run first for the first service stopped has failed,
\* its other hook has been run, and so have the hooks of the next service.
C12_Witness ==
    /\ state = "Stopping"
    /\ ~expired
    /\ Len(stopOrder) >= 2
    /\ stopFailed[stopOrder[1]] = 1
    /\ stopDone[stopOrder[1]] = 2
    /\ Len(errs) = 1
    /\ stopDone[stopOrder[2]] = 2

\* C13 as stated: when Stop returns, every failure of an OnStop hook is among
\* the errors it returns, and it returns nil only if no hook failed and no
\* timeout was recorded.
C13_AllFailuresReturned ==
    [][StopReturns
         => /\ \A k \in Keys : HookErrorsOf(k) = stopFailed[k]
            /\ ret'.code = "nil" => (errs = << >> /\ \A k \in Keys : stopFailed[k] = 0)]_vars

ShutdownTimeout == Err("ShutdownTimeout", "nil")

\* No thread is at or inside stopService.
NoStopService == \A x \in Procs : pc[x] \notin {"stopSvc", "stopHookRun"}

\* C15: when the loop of Stop makes its check before a service or a group
\* with the context expired, it records the timeout and visits nothing more;
\* once the timeout is recorded, no OnStop hook is run by that Stop.
C15_ExpiredStopsIteration ==
    /\ [][\A t \in Callers :
            (/\ pc[t] = "stopLoop"
             /\ todo # << >>
             /\ expired
             /\ <<pc[t], todo, errs>>' # <<pc[t], todo, errs>>)
            => /\ errs' = Append(errs, ShutdownTimeout)
               /\ todo' = << >>
               /\ NoStopService']_vars
    /\ [][(\E i \in DOMAIN errs : errs[i] = ShutdownTimeout)
            => /\ stopDone' = stopDone
               /\ stopOrder' = stopOrder
               /\ NoStopService']_vars

\* C15 witness: the hooks of one service were run, then the timeout was
\* recorded, and an instantiated service is left whose hooks were not run.
C15_Witness ==
    /\ state = "Stopping"
    /\ errs = <<ShutdownTimeout>>
    /\ \E k \in Keys : stopDone[k] = 2
    /\ \E k \in Keys : services[k].Instantiated /\ k \notin Range(stopOrder)

\* ------------------------------------------------- hook pairing properties

C17_StopOnlyInstantiated ==
    /\ [][\A t \in Procs : StopHookBegins(t) => services[key'[t]].Instantiated]_vars
    /\ [](\A k \in Keys : ~services[k].Instantiated => stopDone[k] = 0)

\* C17 witness: a parallel Stop has returned; it ran the hooks of one entry
\* and none of a lazy entry of the same group that was never instantiated.
C17_Witness ==
    /\ parallel
    /\ state = "Stopped"
    /\ ret.op = "Stop"
    /\ \E k \in Keys : stopDone[k] = 2
    /\ \E k \in Keys : services[k].Lazy /\ ~services[k].Instantiated /\ stopDone[k] = 0

\* ---------------------------------------------------- lazy start properties

\* A thread is inside runLazyStart for key k.
LazyStarting(k) ==
    \E t \in Procs : InResolve(t) /\ Top(t).key = k /\ Top(t).phase = "lazyHookRun"

\* The runLazyStart of thread t returns in this step.
LazyStartEnds(t) ==
    /\ InResolve(t)
    /\ Top(t).phase = "lazyHookRun"
    /\ Len(stack'[t]) < Len(stack[t])

\* The Resolve that thread t returns from in this step returns an error.
ResolveReturnsErr(t) ==
    IF Len(stack[t]) > 1
    THEN LET parent == stack'[t][Len(stack'[t])]
         IN parent.phase = "fail" \/ (parent.phase = "provRet" /\ parent.got.err # NoErr)
    ELSE IF pc[t] = "userResolve" THEN ret'.code # "nil" ELSE rres'[t].err # NoErr

\* The OnStart hooks of an entry are run at most once each by the resolves,
\* only while the container is Running, and never after startRan is set.
LazyHooksAtMostOnce ==
    /\ [](\A k \in Keys : lazyDone[k] <= services[k].OnStart)
    /\ [][\A k \in Keys :
            lazyDone'[k] # lazyDone[k] => (state = "Running" /\ ~services[k].StartRan)]_vars

\* The Resolve that stores the instance of a lazy entry while the container
\* is Running goes on to run the OnStart hooks of the entry.
LazyStartBegins ==
    [][\A k \in Keys :
         (/\ services[k].Lazy
          /\ ~services[k].StartRan
          /\ state = "Running"
          /\ ~services[k].Instantiated
          /\ services'[k].Instantiated)
         => LazyStarting(k)']_vars

C19_LazyResolvedEarlyNeverStarted ==
    /\ [][\A k \in Keys :
            (/\ services[k].Lazy
             /\ services[k].Instantiated
             /\ lazyDone[k] = 0
             /\ ~LazyStarting(k))
            => /\ lazyDone'[k] = 0
               /\ ~LazyStarting(k)']_vars
    /\ [](\A k \in Keys :
            /\ state \in {"New", "Starting"} => (lazyDone[k] = 0 /\ ~LazyStarting(k))
            /\ services[k].Lazy => (startDone[k] = 0 /\ k \notin Range(startOrder)))

\* C19 witness: Start has returned nil on a container on which a lazy entry
\* was already instantiated; none of the OnStart hooks of the entry was run.
C19_Witness ==
    /\ ret.op = "Start"
    /\ ret.code = "nil"
    /\ \E k \in Keys :
         /\ services[k].Lazy
         /\ services[k].Instantiated
         /\ services[k].Dependencies # << >>
         /\ ~services[k].StartRan
         /\ lazyDone[k] = 0
         /\ startDone[k] = 0

\* C20 as stated: once startRan of an entry is set, no OnStart hook of the
\* entry begins, in Start or in Resolve.
C20_NoHookAfterStartRan ==
    /\ [][\A t \in Procs : StartHookBegins(t) => ~services[key'[t]].StartRan]_vars
    /\ [][\A k \in Keys :
            services[k].StartRan => (lazyDone'[k] = lazyDone[k] /\ ~LazyStarting(k)')]_vars

\* C20 amended: once startRan of an entry is set, no Resolve runs an OnStart
\* hook of the entry; Start never runs the OnStart hooks of a lazy entry; and
\* startService runs the OnStart hooks of the entry it has resolved without
\* looking at startRan, so a Start after Stop runs them again.
C20_NoLazyHookAfterStartRan ==
    /\ [][\A k \in Keys :
            services[k].StartRan => (lazyDone'[k] = lazyDone[k] /\ ~LazyStarting(k)')]_vars
    /\ [][\A t \in Procs :
            /\ StartHookBegins(t) => ~services[key'[t]].Lazy
            /\ (pc[t] = "startResolved" /\ pc'[t] # "startResolved" /\ rres[t].err = NoErr)
               => (pc'[t] = "startHookRun" \/ services[key[t]].OnStart = 0)]_vars

\* C20 witness: a lazy entry was started by a Resolve, and a later Start has
\* returned nil after running again the OnStart hooks of an entry whose
\* startRan was set, and none of the lazy entry.
C20_Witness ==
    /\ ret.op = "Start"
    /\ ret.code = "nil"
    /\ \E k \in Keys :
         /\ services[k].Lazy
         /\ services[k].StartRan
         /\ lazyDone[k] = 2
         /\ startDone[k] = 0
    /\ \E k \in Keys : ~services[k].Lazy /\ services[k].StartRan /\ startDone[k] = 2

\* ------------------------------------------------- resolve failure properties

\* The Resolve at the top of the stack of thread t returns in this step.
ResolveEnds(t) == InResolve(t) /\ Len(stack'[t]) < Len(stack[t])

\* The Resolve that thread t returns from in this step fails after its
\* provider was invoked: in the provider, in a decorator or in a lazy OnStart
\* hook.
ResolveFailsLate(t) ==
    /\ ResolveEnds(t)
    /\ ResolveReturnsErr(t)
    /\ \/ Top(t).phase = "lazyHookRun"
       \/ provCalls'[Top(t).key] # provCalls[Top(t).key]

\* C21 as stated: when the provider, a decorator or a lazy OnStart hook fails
\* in the Resolve of a singleton, the Resolve returns the error and the entry
\* is left not instantiated.
C21_FailureCachesNothing ==
    [][\A t \in Procs :
         ResolveFailsLate(t) => ~services'[Top(t).key].Instantiated]_vars

\* ------------------------------------------------- parallel start properties

\* Thread x begins startService in this step.
StartServiceBegins(x) == pc'[x] = "startSvc" /\ pc[x] # "startSvc"

\* No goroutine of a group is between its spawn and its wg.Done.
NoTaskRunning == \A k \in Keys : pc[k] \in {"off", "done"}

\* startGroup returns to Start in this step, after its join.
StartGroupReturns == \E t \in Callers : pc[t] = "startJoin" /\ pc'[t] # "startJoin"

\* C22: in parallel Start no service begins starting while a task of an
\* earlier group has not finished; startGroup returns only when every task
\* it spawned has finished; when a task has put an error into errCh, Start
\* returns an error of a service of that group and leaves no group to start.
C22_GroupJoins ==
    /\ [][parallel /\ (\E x \in Procs : StartServiceBegins(x)) => NoTaskRunning]_vars
    /\ [][StartGroupReturns
            => /\ \A k \in spawned : pc[k] = "done"
               /\ errCh # << >>
                  => /\ ret'.op = "Start"
                     /\ ret'.code # "nil"
                     /\ ret'.key \in spawned
                     /\ todo' = << >>
                     /\ \A x \in Procs : pc'[x] \notin StartBody]_vars

\* C22 witness: a parallel Start has returned the error of a task of a group
\* of which another task ran all its OnStart hooks, and a service of a later
\* group was never resolved.
C22_Witness ==
    /\ parallel
    /\ ret.op = "Start"
    /\ ret.code = "HookFailed"
    /\ \E k, j \in Keys :
         /\ k # ret.key
         /\ calculateLevel(graph, k) = calculateLevel(graph, ret.key)
         /\ startDone[k] = services[k].OnStart
         /\ calculateLevel(graph, j) > calculateLevel(graph, k)
         /\ ~services[j].Lazy
         /\ ~services[j].Instantiated

\* ---------------------------------------------------- re-entrancy properties

\* The keys of the Resolve calls that thread t is inside of.
Chain(t) == {stack[t][i].key : i \in DOMAIN stack[t]}

\* The provider of the innermost Resolve of thread t calls Resolve in this
\* step, and that Resolve returns at once.
InnerResolveRefused(t) ==
    /\ InResolve(t)
    /\ Top(t).phase # "provRet"
    /\ Len(stack'[t]) = Len(stack[t])
    /\ stack'[t][Len(stack[t])].phase = "provRet"

ResolveRefused(t, k) ==
    \/ /\ pc[t] = "idle"
       /\ ret'.by = t
       /\ ret'.op = "Resolve"
       /\ ret'.key = k
    \/ /\ pc[t] = "startSvc"
       /\ key[t] = k
       /\ ~IsLazy(services, k)
       /\ pc'[t] \notin {"startSvc", "startResolve"}
    \/ /\ InResolve(t)
       /\ Len(stack'[t]) = Len(stack[t])
       /\ \/ /\ Top(t).phase \in {"body", "deps"}
             /\ stack'[t][Len(stack[t])].phase = "fail"
             /\ k = EntryOf(t).Dependencies[IF Top(t).phase = "body" THEN 1 ELSE Top(t).i]
          \/ /\ InnerResolveRefused(t)
             /\ k = stack'[t][Len(stack[t])].got.err.key

\* The call made to every observer when a Resolve of key k returns code.
Resolved(k, code) == [key |-> k, code |-> code, n |-> Cardinality(Observers)]

\* C24: every step in which a Resolve returns, nested or not, calls every
\* observer once with the key and the error of that Resolve, whether it ran
\* to its end or was refused at its entry; no other step calls an observer,
\* and no step is the return of two Resolves.
C24_OneEventPerResolve ==
    /\ [][\A t \in Procs :
            ResolveEnds(t)
            => /\ resolved'.key = Top(t).key
               /\ resolved'.n = Cardinality(Observers)
               /\ resolved'.code # "nil" <=> ResolveReturnsErr(t)
               /\ pc[t] = "userResolve" /\ Len(stack[t]) = 1
                  => resolved' = Resolved(ret'.key, ret'.code)
               /\ Top(t).phase = "body" /\ Top(t).key \notin DOMAIN services
                  => resolved'.code = "ServiceNotFound"]_vars
    /\ [][\A t \in Procs, k \in Keys :
            ResolveRefused(t, k) => resolved' = Resolved(k, "CircularResolution")]_vars
    /\ [][resolved' # NoEvent
            => \E t \in Procs : ResolveEnds(t) \/ \E k \in Keys : ResolveRefused(t, k)]_vars
    /\ [][Cardinality({t \in Procs : ResolveEnds(t) \/ \E k \in Keys : ResolveRefused(t, k)})
            <= 1]_vars

\* C24 witness: the Resolve of a dependency has just returned the missing
\* request scope error to the Resolve that called it, and the observers
\* were called with it.
C24_Witness ==
    /\ resolved.code = "NoRequestScope"
    /\ resolved.n = Cardinality(Observers)
    /\ \E t \in Procs :
         /\ InResolve(t)
         /\ Top(t).phase = "fail"
         /\ Top(t).key # resolved.key

\* ---------------------------------------------------------- pool properties

\* The keys registered with scope Pooled.
PooledKeys == {k \in DOMAIN services : services[k].Scope = "Pooled"}

\* Release(k, ...) returns in this step.
Released(k) == ret'.op = "Release" /\ ret'.key = k

\* C25: the pool of a pooled entry never holds more than poolSize instances;
\* Release appends the instance and returns true when the pool holds fewer,
\* and returns false and leaves the pool alone when it holds poolSize.
C25_PoolBounded ==
    /\ [](\A k \in PooledKeys : Len(services[k].pool) <= services[k].PoolSize)
    /\ [][\A k \in PooledKeys :
            Released(k)
            => IF Len(services[k].pool) < services[k].PoolSize
               THEN /\ ret'.code = "true"
                    /\ services'[k].pool = Append(services[k].pool, ret'.inst)
               ELSE /\ ret'.code = "false"
                    /\ services'[k].pool = services[k].pool]_vars

\* C25 witness: a Release was refused by a pool that holds two instances.
C25_Witness ==
    /\ ret.op = "Release"
    /\ ret.code = "false"
    /\ ret.key \in PooledKeys
    /\ services[ret.key].PoolSize = 2
    /\ Len(services[ret.key].pool) = 2

\* The Resolve of a pooled key by thread t finds an instance in the pool in
\* this step, and returns it: the instance that has been in the pool longest
\* is taken out of the pool and no provider is invoked.
PoolHit(t) ==
    /\ ResolveEnds(t)
    /\ Top(t).phase = "body"
    /\ Top(t).key \in PooledKeys
    /\ services[Top(t).key].pool # << >>

PoolHitReturnsHead ==
    [][\A t \in Procs :
         PoolHit(t)
         => /\ ~ResolveReturnsErr(t)
            /\ pc[t] = "userResolve" /\ Len(stack[t]) = 1
               => ret'.inst = Head(services[Top(t).key].pool)
            /\ services'[Top(t).key].pool = Tail(services[Top(t).key].pool)
            /\ provCalls' = provCalls]_vars

\* C26 as stated: after a Release of instance I to a pooled key has returned
\* true, I is the instance that the next Resolve of the key takes from the
\* pool.
C26_NextResolveReturnsReleased ==
    /\ PoolHitReturnsHead
    /\ [][\A k \in PooledKeys :
            (Released(k) /\ ret'.code = "true") => Head(services'[k].pool) = ret'.inst]_vars

\* C26 amended: a Release that returns true puts I behind the instances the
\* pool already holds; a Resolve of the key takes the instance at the front
\* of the pool without invoking the provider, so the next Resolve returns I
\* when the pool was empty before the Release, and otherwise the instance
\* released earliest.
C26_ResolveReturnsOldestReleased ==
    /\ PoolHitReturnsHead
    /\ [][\A k \in PooledKeys :
            (Released(k) /\ ret'.code = "true")
            => /\ services'[k].pool = Append(services[k].pool, ret'.inst)
               /\ services[k].pool = << >> => Head(services'[k].pool) = ret'.inst]_vars

\* C26 witness: two instances were released, and the Resolve that followed
\* has returned the one released first; the one released last is in the pool.
C26_Witness ==
    /\ ret.op = "Resolve"
    /\ ret.code = "nil"
    /\ ret.key \in PooledKeys
    /\ ret.inst.n = 1
    /\ provCalls[ret.key] = 2
    /\ Len(services[ret.key].pool) = 1
    /\ Head(services[ret.key].pool).n = 2


\* ---------------------------------------------------------------------------
\* Request scope
\* ---------------------------------------------------------------------------

\* The keys registered with the Request scope.
RequestKeys == {k \in DOMAIN services : services[k].Scope = "Request"}

\* A Resolve of k made with request scope c returns in this step without an error.
RequestResolveSucceeds(t, c, k) ==
    /\ ResolveEnds(t)
    /\ Top(t).key = k
    /\ Top(t).ctx = c
    /\ k \in RequestKeys
    /\ ~ResolveReturnsErr(t)

\* C27 (as stated): the provider of a Request-scoped key runs at most once
\* per request scope.
C27_ProviderOncePerScope ==
    \A c \in RequestCtxs : \A k \in RequestKeys : scopeCalls[c][k] <= 1

\* C27 (amended): every Resolve of a Request-scoped key that succeeds with a
\* request scope leaves the scope holding an instance of the key, which is
\* the instance returned to the caller; an instance a scope holds is never
\* exchanged, and a Resolve made while the scope holds one does not invoke
\* the provider; the instances two distinct scopes hold come from distinct
\* provider invocations.
C27_SameScopeSameInstance ==
    [][ /\ \A c \in RequestCtxs : \A k \in DOMAIN requests[c] :
             /\ k \in DOMAIN requests'[c]
             /\ requests'[c][k] = requests[c][k]
             /\ scopeCalls'[c][k] = scopeCalls[c][k]
        /\ \A t \in Callers : \A c \in RequestCtxs : \A k \in Keys :
             RequestResolveSucceeds(t, c, k) =>
                /\ k \in DOMAIN requests'[c]
                /\ (stack'[t] = << >> => ret'.inst = requests'[c][k])
        /\ \A c1 \in RequestCtxs : \A c2 \in RequestCtxs \ {c1} :
             \A k \in DOMAIN requests'[c1] \cap DOMAIN requests'[c2] :
                requests'[c1][k].n # requests'[c2][k].n
      ]_vars

\* The Resolve that just returned was given the instance the first scope
\* holds, after the second scope was given a later one.
C27_Witness ==
    \E k \in RequestKeys :
       /\ k \in DOMAIN requests["r1"] \cap DOMAIN requests["r2"]
       /\ ret.op = "Resolve"
       /\ ret.key = k
       /\ ret.code = "nil"
       /\ ret.inst = requests["r1"][k]
       /\ requests["r1"][k].n < requests["r2"][k].n


\* ---------------------------------------------------------------------------
\* Replace
\* ---------------------------------------------------------------------------

\* An instance built by a provider that a Replace has taken out of the registry.
BuiltByOldProvider(inst) == inst.src \in Providers

\* C28: a Resolve of a key that begins after a Replace or ReplaceValue of the
\* key has returned nil does not return an instance built by the provider
\* that was replaced.
C28_ReplacedNeverOld ==
    [][\A t \in Callers :
         InResolve(t) /\ Len(stack[t]) = 1 /\ Top(t).after /\ ResolveEnds(t)
            /\ ret'.code = "nil" => ~BuiltByOldProvider(ret'.inst)]_vars


\* ---------------------------------------------------------------------------
\* Bind
\* ---------------------------------------------------------------------------

\* The interface keys: those registered by Bind.
BoundKeys == {k \in DOMAIN services : services[k].Provider = BindProvider}

\* The implementation key an interface key is bound to.
implKey(k) == services[k].Dependencies[1]

\* A Resolve of key k called by a user returns an instance in this step.
UserResolveSucceeds(t, k) ==
    /\ InResolve(t)
    /\ Len(stack[t]) = 1
    /\ Top(t).key = k
    /\ ResolveEnds(t)
    /\ ret'.code = "nil"

\* The Resolve of i or of the key it is bound to that returns in this step
\* returns the instance that each of the two entries holds, if it holds one.
ReturnsTheBoundInstance(t, i) ==
    \A k \in {i, implKey(i)} :
       UserResolveSucceeds(t, k) =>
          \A x \in {i, implKey(i)} \cap DOMAIN services' :
             services'[x].Instantiated => ret'.inst = services'[x].Instance

\* C29 (as stated): once the interface key or the implementation key of a
\* binding has been resolved, every Resolve of either returns the instance
\* that was returned then.
C29_BoundSameInstance ==
    [][\A t \in Callers : \A i \in BoundKeys : ReturnsTheBoundInstance(t, i)]_vars

\* The bindings whose implementation key is a Singleton and whose interface
\* key has no decorator.
PlainBoundKeys ==
    {i \in BoundKeys : /\ implKey(i) \in DOMAIN services
                       /\ services[implKey(i)].Scope = "Singleton"
                       /\ decorators[i] = 0}

\* C29 (amended): when the implementation key is a Singleton and the
\* interface key has no decorator, every Resolve of either returns the
\* instance that the entries of both hold once they have been resolved.
C29_SingletonBoundSameInstance ==
    [][\A t \in Callers : \A i \in PlainBoundKeys : ReturnsTheBoundInstance(t, i)]_vars

\* The interface key has been resolved and the Resolve of the implementation
\* key that just returned was given the instance the interface key holds.
C29_Witness ==
    \E i \in PlainBoundKeys :
       /\ services[i].Instantiated
       /\ ret.op = "Resolve"
       /\ ret.code = "nil"
       /\ ret.key = implKey(i)
       /\ ret.inst = services[i].Instance
       /\ ret.inst = services[implKey(i)].Instance


\* ---------------------------------------------------------------------------
\* Modules
\* ---------------------------------------------------------------------------

\* Apply returned ModuleApplyFailed in this step.
ApplyFails == regRet'.op = "Apply" /\ regRet'.code = "ModuleApplyFailed"

\* C30: an Apply that returns ModuleApplyFailed leaves the registry, the
\* nodes and edges of the graph and the decorators as they were before it.
C30_ApplyAtomic ==
    [][ApplyFails =>
         /\ services' = services
         /\ graph'.nodes = graph.nodes
         /\ graph'.edges = graph.edges
         /\ decorators' = decorators]_vars


\* ---------------------------------------------------------------------------
\* Health
\* ---------------------------------------------------------------------------

\* The instantiated entries whose instance implements HealthChecker.
InstantiatedCheckers == {k \in CheckerKeys \cap DOMAIN services : services[k].Instantiated}

\* Live or Health returns in this step.
HealthReturns ==
    /\ ret'.op \in {"Live", "Health"}
    /\ UNCHANGED <<services, graph, regRet>>

\* C31: the reports that Live and Health obtain hold exactly one report for
\* each instantiated entry whose instance implements HealthChecker and none
\* for any other entry; Live returns HealthCheckFailed exactly when one of
\* the reports is Down, and names a service whose report is Down.
C31_HealthOfInstantiated ==
    [][HealthReturns =>
         /\ Len(reports') = Cardinality(InstantiatedCheckers)
         /\ {reports'[i].Name : i \in DOMAIN reports'} = InstantiatedCheckers
         /\ ret'.op = "Live" =>
              /\ ret'.code = "HealthCheckFailed" <=>
                   \E i \in DOMAIN reports' : reports'[i].Status = "down"
              /\ ret'.code = "HealthCheckFailed" =>
                   \E i \in DOMAIN reports' :
                      reports'[i].Status = "down" /\ reports'[i].Name = ret'.key
              /\ ret'.code \in {"HealthCheckFailed", "nil"}]_vars

\* Live has failed while an entry that implements HealthChecker is registered
\* and not instantiated, and an instantiated entry implements none.
C31_Witness ==
    /\ ret.op = "Live"
    /\ ret.code = "HealthCheckFailed"
    /\ reports # << >>
    /\ \E k \in CheckerKeys \cap DOMAIN services : ~services[k].Instantiated
    /\ \E k \in DOMAIN services \ CheckerKeys : services[k].Instantiated


\* ---------------------------------------------------------------------------
\* Graph
\* ---------------------------------------------------------------------------

\* The dependencies of node n that are nodes.
NodeDeps(g, n) == Range(EdgesOf(g, n)) \cap g.nodes

RECURSIVE Reach(_, _)

\* The nodes reachable from the set S along dependencies that are nodes.
Reach(g, S) ==
    LET T == S \cup UNION {NodeDeps(g, n) : n \in S} IN
    IF T = S THEN S ELSE Reach(g, T)

\* The graph has a cycle among its nodes: a node that reaches itself.
CycleAmongNodes(g) == \E n \in g.nodes : n \in Reach(g, NodeDeps(g, n))

\* The graph has a strongly connected component of more than one node, or a
\* node that lists itself.
ComponentOrSelfLoop(g) ==
    \/ \E a \in g.nodes : \E b \in g.nodes \ {a} :
          b \in Reach(g, NodeDeps(g, a)) /\ a \in Reach(g, NodeDeps(g, b))
    \/ \E n \in g.nodes : n \in NodeDeps(g, n)

\* The place of node n in the order o.
PlaceOf(o, n) == CHOOSE i \in DOMAIN o : o[i] = n

\* C32: TopologicalSort fails with CycleDetected exactly when the graph has a
\* cycle among its nodes; otherwise the order it returns holds every node
\* exactly once, each after all of its dependencies that are nodes.
C32_TopologicalSortSorts ==
    [][graphRet'.op = "TopologicalSort" =>
         /\ graphRet'.err = "CycleDetected" <=> CycleAmongNodes(graph)
         /\ graphRet'.err \in {"CycleDetected", "nil"}
         /\ graphRet'.err = "nil" =>
              LET o == graphRet'.order IN
              /\ Len(o) = Cardinality(graph.nodes)
              /\ Range(o) = graph.nodes
              /\ \A n \in graph.nodes : \A d \in NodeDeps(graph, n) :
                    PlaceOf(o, d) < PlaceOf(o, n)]_vars

\* A sort has returned all the keys as nodes, of which one has a dependency
\* and one lists the same dependency twice.
C32_Witness ==
    /\ graphRet.op = "TopologicalSort"
    /\ graphRet.err = "nil"
    /\ graph.nodes = Keys
    /\ \E n \in graph.nodes : Len(graph.edges[n]) > Cardinality(Range(graph.edges[n]))
    /\ \E n \in graph.nodes : NodeDeps(graph, n) # {}

\* C33: HasCycle returns true exactly when the graph, as the calls of AddNode
\* and RemoveNode made so far have left it, has a strongly connected
\* component of more than one node or a node that lists itself, and exactly
\* when DetectCycles returns a cycle, in whatever order it visits the nodes.
C33_HasCycleOfCurrentGraph ==
    [][/\ graphRet'.op = "HasCycle" =>
            /\ graphRet'.result <=> ComponentOrSelfLoop(graph)
            /\ \A ord \in Perms(graph.nodes) :
                  graphRet'.result <=> DetectCycles(graph, ord) # << >>
       /\ graphRet'.op = "DetectCycles" =>
            (graphRet'.cycles # << >> <=> ComponentOrSelfLoop(graph))]_vars

\* HasCycle has returned false for a graph in which a node still lists a
\* dependency that is no longer a node and that would close a cycle if it were.
C33_Witness ==
    /\ graphRet.op = "HasCycle"
    /\ ~graphRet.result
    /\ \E n \in graph.nodes : \E d \in Range(graph.edges[n]) \ graph.nodes :
          LET g == AddNode(graph, d, <<n>>) IN ComponentOrSelfLoop(g)


\* ---------------------------------------------------------------------------
\* Mutexes
\* ---------------------------------------------------------------------------

\* Goroutine t can take a step: it is not waiting for a mutex.
CanStep(t) ==
    InCall(t) /\ (Returning(t) \/ CASE AtStep(t).do = "Lock" -> CanLock(AtStep(t).on)
                                    [] AtStep(t).do = "RLock" -> CanRLock(AtStep(t).on)
                                    [] OTHER -> TRUE)

\* Goroutine t waits for a mutex that it holds itself.
WaitsForItself(t) ==
    InCall(t) /\ ~Returning(t) /\ AtStep(t).do \in {"Lock", "RLock"}
        /\ ~CanStep(t) /\ AtStep(t).on \in HeldBy(t)

\* C34: while a provider, decorator, lifecycle hook or observer runs, the
\* goroutine running it holds no mutex of the container, the registry, the
\* graph, the resolving set or the decorators; no goroutine waits for a mutex
\* it holds itself, and as long as a call is in progress some goroutine can
\* take a step.
C34_NoLockAcrossCallbacks ==
    /\ \A t \in Goroutines : Running(t) => HeldBy(t) = {}
    /\ \A t \in Goroutines : ~WaitsForItself(t)
    /\ (\E t \in Goroutines : InCall(t)) => \E t \in Goroutines : CanStep(t)

\* An observer run by Register has called Replace, which holds c.mu and the
\* graph's mutex, while the other goroutine waits for c.mu in Resolve.
C34_Witness ==
    \E t \in Goroutines : \E u \in Goroutines \ {t} :
        /\ Len(locking.at[t]) > 1
        /\ TopCall(t).op = "Replace" /\ TopCall(t).cb
        /\ locking.at[t][Len(locking.at[t])].op = "Register"
        /\ {"mu", "graph"} \subseteq HeldBy(t)
        /\ InCall(u) /\ ~CanStep(u)
        /\ TopCall(u).op = "Resolve"


\* ---------------------------------------------------------------------------
\* Concurrent Resolves
\* ---------------------------------------------------------------------------

\* C35: a Resolve is refused with the circular resolution error only for a
\* key that the thread calling it is already resolving, on its own call chain.
C35_RefusedOnlyOnOwnChain ==
    [][\A t \in Procs, k \in Keys : ResolveRefused(t, k) => k \in Chain(t)]_vars


\* ---------------------------------------------------------------------------
\* Failed Start
\* ---------------------------------------------------------------------------

\* A caller is inside Start, or a goroutine of a start group is running.
StartInFlight ==
    \/ \E t \in Callers : pc[t] \in {"startLoop", "startJoin", "startSvc", "startResolve",
                                     "startResolved", "startHookRun"}
    \/ \E k \in Keys : pc[k] # "off"

\* The last Start has failed: the state is Starting and no Start is running.
FailedStart == state = "Starting" /\ ~StartInFlight

\* C36: when Start returns an error other than its refusal, the container is
\* in state Starting with no Start running, and from then on it stays so:
\* every Start is refused, every Stop returns nil, and no OnStop hook runs.
C36_FailedStartIsFinal ==
    /\ [][ret'.op = "Start" /\ ret'.code \notin {"nil", "AlreadyStarted"} => FailedStart']_vars
    /\ [][FailedStart =>
            /\ FailedStart'
            /\ UNCHANGED <<stopOrder, stopDone, stopFailed>>
            /\ ret' # ret /\ ret'.op = "Start" => ret'.code = "AlreadyStarted"
            /\ ret' # ret /\ ret'.op = "Stop" => ret'.code = stopNoop]_vars

\* C36 witness: a service with an OnStop hook has run its OnStart hook, Start
\* has failed at a later service, and a Stop called after it has returned nil.
C36_Witness ==
    /\ FailedStart
    /\ ret.op = "Stop"
    /\ \E k \in Keys :
         /\ startDone[k] > 0
         /\ services[k].OnStop > 0
         /\ services[k].Instantiated
         /\ stopDone[k] = 0


\* ---------------------------------------------------------------------------
\* Replace and OnStop
\* ---------------------------------------------------------------------------

\* Key k holds an entry that Replace or ReplaceValue registered.
IsReplacement(k) ==
    k \in DOMAIN services /\ services[k].Provider \in {ReplacementProvider, "nil"}

C38_RejectedReplaceKeepsEntry ==
    [][regRet' # regRet /\ regRet'.op = "Replace" /\ regRet'.code = "CircularDependency"
         => /\ services' = services
            /\ graph'.nodes = graph.nodes
            /\ graph'.edges = graph.edges]_vars


\* ---------------------------------------------------------------------------
\* Pooled instances
\* ---------------------------------------------------------------------------

\* The queue q holds no instance twice.
NoDup(q) == \A i, j \in DOMAIN q : q[i] = q[j] => i = j

\* C39 as stated: the pool of a key never holds the same instance twice.
C39_PoolHoldsNoInstanceTwice ==
    \A k \in DOMAIN services : NoDup(services[k].pool)

\* This step is a Release to key k of an instance that is already in its pool.
ReleasedTwice(k) ==
    /\ Len(services'[k].pool) > Len(services[k].pool)
    /\ services'[k].pool[Len(services'[k].pool)] \in Range(services[k].pool)

\* C39: unless an instance that is in the pool is released again, a pool that
\* holds no instance twice never comes to hold one twice, and the instance
\* that a Resolve takes from it is no longer in it, so that no other Resolve
\* returns it before it is released.
C39_ExclusiveUnlessReleasedTwice ==
    [][\A k \in PooledKeys :
         NoDup(services[k].pool) /\ ~ReleasedTwice(k)
         => /\ NoDup(services'[k].pool)
            /\ \A t \in Procs :
                 PoolHit(t) /\ Top(t).key = k /\ pc[t] = "userResolve" /\ Len(stack[t]) = 1
                 => /\ ret'.inst \in Range(services[k].pool)
                    /\ ret'.inst \notin Range(services'[k].pool)]_vars

\* C39 witness: a Resolve has returned an instance taken from a pool of two
\* instances; the other one is still in the pool.
C39_Witness ==
    /\ ret.op = "Resolve" /\ ret.code = "nil"
    /\ ret.key \in PooledKeys
    /\ ret.inst.n < provCalls[ret.key]
    /\ Len(services[ret.key].pool) = 1
    /\ ret.inst \notin Range(services[ret.key].pool)


\* ---------------------------------------------------------------------------
\* Replace and decorators
\* ---------------------------------------------------------------------------

====
